---- MODULE Spec2Model ----
(***************************************************************************)
(* Verification model of vibe-forge: the state store (infra/state.rs),     *)
(* multi-repo working-copy provisioning (commands/new.rs) and the session  *)
(* lifecycle operations (commands/{new,kill,cleanup,doctor,spawn}.rs,      *)
(* tui/mod.rs).                                                            *)
(*                                                                         *)
(* The module holds several specifications over disjoint variable groups:  *)
(*   SpecStore      one save at a time, the saving process may crash       *)
(*   SpecStoreRace  several processes save and load concurrently           *)
(*   SpecProv       create_multi_repo_worktrees, one task per repository   *)
(*   Spec           session operations: new, kill, cleanup, doctor, the    *)
(*                  dashboard's start-up and kill keys, and the user       *)
(*                  closing windows or deleting directories behind it      *)
(*   SpecAgents     sessions with their agents: new, spawn, kill           *)
(*   SpecDash       a running dashboard: its periodic refresh and          *)
(*                  reconciliation, the watcher's events, spawn            *)
(*   SpecTmux       calls to tmux through the retry loops, the existence   *)
(*                  probes, ensure_session; SpecTmuxLive adds fairness     *)
(*   SpecNav        dashboard instances setting up and tearing down the    *)
(*                  nav bindings they share                                *)
(*   SpecRepos      init and refresh-repos of a workspace                  *)
(*   SpecCleanup    cleanup over any stored document                       *)
(*   SpecCompat     workspace.json as JSON: documents of earlier versions  *)
(*                  loaded, saved and loaded again                         *)
(*   SpecReconcile  the dashboard's reconciliation over a list of agents,  *)
(*                  with refreshes and kills; SpecReconcileLive keeps the  *)
(*                  list and adds fairness of the tick                     *)
(*   SpecBackstop   headless agents finishing with watcher events lost     *)
(*                                                                         *)
(* A command is one step: it loads the persisted state, acts on it and     *)
(* saves; the dashboard handlers modelled here do the same through the     *)
(* command functions or right after a load.                                *)
(***************************************************************************)
EXTENDS Integers, Sequences, FiniteSets, TLC

\* ---- state store: files of .vibe/ ----
VARIABLES inodes,   \* inode id -> file content (sequence of chunks)
          dir,      \* path ("canon" = workspace.json, "tmp" = workspace.json.tmp) -> inode id, 0 = absent
          sv,       \* per process: position inside StateManager::save
          loaded,   \* result of the most recent StateManager::load
          hist      \* the most recent save: document before it, document saved, whether it crashed

storeVars == <<inodes, dir, sv, loaded, hist>>

\* ---- multi-repo provisioning: create_multi_repo_worktrees ----
VARIABLES task,     \* repo -> the spawned task: st (running, finished, joined) and its outcome
          joinq,    \* finished tasks in completion order, not yet returned by join_next
          prov,     \* locals of the call: pc, repo_worktrees, successes, errors, result, order
          provfs    \* file system: session_root exists, repos whose working copy exists

provVars == <<task, joinq, prov, provfs>>

\* ---- sessions and agents: persisted state and the resources it describes ----
VARIABLES kind,      \* workspace.kind of the persisted document
          repos,     \* workspace.repos of the persisted document
          disk,      \* the persisted WorkspaceState: sessions and agents, in order
          windows,   \* names of the windows of the tmux session
          wts,       \* working-copy directories that exist, besides the workspace root
          panes,     \* ids of the tmux panes that exist
          dash,      \* the dashboard process: running, input_mode
          nextId,    \* next fresh session / working-copy id
          nextAgent, \* next fresh agent id
          last       \* the most recent operation: its arguments, what it returned, the paths
                     \* it invoked a removal on, the number of agents the killed session had

facadeVars == <<kind, repos, disk, windows, wts, panes, dash, nextId, nextAgent, last>>

\* ---- the dashboard process: what its event loop holds in memory ----
VARIABLES app,       \* App::state, the WorkspaceState loaded at the last refresh
          reconcile_next_agent, \* App::reconcile_next_agent
          events,    \* the watcher channel: agent ids of the AgentCompleted events queued, oldest first
          outputs,   \* agent ids whose output.json has been written in full
          waits      \* agent id -> reconcile_tmux_state calls in a row that found it eligible and did not check it

appVars == <<app, reconcile_next_agent, events, outputs, waits>>

\* ---- the tmux server and the calls made to it ----
VARIABLES bindings,  \* which of the six nav items (two user-keys options, four key bindings) are set
          navlock,   \* .vibe/nav_bindings.lock: the pid written in it, 0 = no file
          inst,      \* per dashboard instance: position inside set-up, event loop or teardown
          call,      \* the run_tmux / run_tmux_output call in progress: attempt, invocations, answers
          tsess,     \* number of tmux sessions carrying the orchestrator's session name
          ens        \* the ensure_session calls made so far and what the latest returned

muxVars == <<bindings, navlock, inst, call, tsess, ens>>

\* ---- workspace.json as a JSON text, and its deserialization ----
VARIABLES legacy,    \* the document found on disk at the start
          file,      \* workspace.json: the JSON document, who wrote it, the state it was written from
          mem        \* result of the most recent serde_json::from_str of it

compatVars == <<legacy, file, mem>>

vars == <<storeVars, provVars, facadeVars, appVars, muxVars, compatVars>>

\* ---------------------------------------------------------------------------
\* Bounds
\* ---------------------------------------------------------------------------
NRepos   == 3      \* repositories of the multi-repo workspace
NumProcs == 2      \* orchestrator processes that may save
NumDocs  == 2      \* distinct documents a process may save (0 is the initial one)
DocLen   == 2      \* chunks a serialized document is written in
MaxIds   == 1      \* working copies `vibe new` may create
MaxAgents == 1     \* agent ids handed out
NumInst  == 2      \* dashboard instances sharing one tmux server and one workspace
MaxEnsure == 2     \* ensure_session calls made in sequence
StormSize == 2     \* watcher events produced while the loop does not drain the channel
NumStored == 2     \* sessions, and agents, of a stored document handed to cleanup

Repos    == 1..NRepos
TrackedIds == 1..(IF NumStored > MaxAgents THEN NumStored ELSE MaxAgents)   \* agent ids in use
WsRepos  == {1}                      \* workspace.repos of a multi-repo workspace
Procs    == 1..NumProcs
Docs     == 0..NumDocs
InodeIds == 1..(NumProcs + 2)
Hole     == <<0, 0>>

\* ---------------------------------------------------------------------------
\* Serialization: serde_json::to_string_pretty / serde_json::from_str
\* ---------------------------------------------------------------------------
\* The serialized text of document d, as the chunks fs::write emits.
ToJson(d) == [i \in 1..DocLen |-> <<d, i>>]

\* Parsing succeeds only on the complete text of one document.
FromJson(c) ==
    IF \E d \in Docs : c = ToJson(d)
    THEN [res |-> "Ok", doc |-> CHOOSE d \in Docs : c = ToJson(d)]
    ELSE [res |-> "StateError", doc |-> -1]

\* Path of the temporary file save writes before renaming.
SaveTmpPathInPlace == "canon"
SaveTmpPath == "tmp"

\* ---------------------------------------------------------------------------
\* File-system primitives
\* ---------------------------------------------------------------------------
Referenced(d, s) == {d[p] : p \in DOMAIN d} \cup {s[p].fd : p \in DOMAIN s}

\* Content of unreferenced inodes is dropped.
Reclaim(ino, d, s) ==
    [i \in InodeIds |-> IF i \in Referenced(d, s) THEN ino[i] ELSE <<>>]

FreeInode == CHOOSE i \in InodeIds : i \notin Referenced(dir, sv)

\* pwrite of chunk k of document d at offset k; a gap left by a foreign
\* truncation reads as zeros.
WriteAt(c, k, d) ==
    [i \in 1..(IF Len(c) > k THEN Len(c) ELSE k) |->
        IF i = k THEN <<d, k>>
        ELSE IF i <= Len(c) THEN c[i] ELSE Hole]

IdleProc == [pc |-> "idle", fd |-> 0, doc |-> 0, off |-> 0]

InitStore ==
    /\ inodes = [i \in InodeIds |-> IF i = 1 THEN ToJson(0) ELSE <<>>]
    /\ dir = [canon |-> 1, tmp |-> 0]
    /\ sv = [p \in Procs |-> IdleProc]
    /\ loaded = [res |-> "None", doc |-> -1, afterCrash |-> FALSE, prev |-> -1, new |-> -1, crashAt |-> "none"]
    /\ hist = [prev |-> 0, new |-> 0, crashAt |-> "none"]

InitProv ==
    /\ task = [r \in Repos |-> [st |-> "unspawned", out |-> "none"]]
    /\ joinq = <<>>
    /\ prov = [pc |-> "start", repo_worktrees |-> {}, successes |-> 0, errors |-> 0,
               result |-> "none", order |-> <<>>]
    /\ provfs = [session_root |-> FALSE, wt |-> {}]

NoOp == [op |-> "init", target |-> "", force |-> FALSE, result |-> "Ok",
         removed |-> {}, agents |-> 0, all |-> FALSE, dry_run |-> FALSE,
         held |-> <<>>, from |-> 0, read |-> {}, checks |-> 0, saves |-> 0]

\* The document written by `vibe init`: no sessions, no agents.
InitFacade ==
    /\ kind \in {"SingleRepo", "MultiRepo"}
    /\ repos = IF kind = "MultiRepo" THEN WsRepos ELSE {}
    /\ disk = [sessions |-> <<>>, agents |-> <<>>]
    /\ windows = {}
    /\ wts = {}
    /\ panes = {}
    /\ dash = [running |-> FALSE, input_mode |-> "Normal"]
    /\ nextId = 1
    /\ nextAgent = 1
    /\ last = NoOp

InitFacadeIdle ==
    /\ kind = "SingleRepo"
    /\ repos = {}
    /\ disk = [sessions |-> <<>>, agents |-> <<>>]
    /\ windows = {}
    /\ wts = {}
    /\ panes = {}
    /\ dash = [running |-> FALSE, input_mode |-> "Normal"]
    /\ nextId = 1
    /\ nextAgent = 1
    /\ last = NoOp

\* No dashboard is running: nothing is held in memory.
InitApp ==
    /\ app = [sessions |-> <<>>, agents |-> <<>>]
    /\ reconcile_next_agent = 0
    /\ events = <<>>
    /\ outputs = {}
    /\ waits = [id \in TrackedIds |-> 0]

\* No call in progress, no dashboard instance started, nothing bound, no session.
IdleCall == [fn |-> "run_tmux", who |-> "none", pc |-> "idle", attempt |-> 0, n |-> 0,
             outs |-> <<>>, ret |-> "none"]

InitMux ==
    /\ bindings = {}
    /\ navlock = 0
    /\ inst = [p \in 1..NumInst |-> [pc |-> "off", has |-> FALSE, exited |-> FALSE]]
    /\ call = IdleCall
    /\ tsess = 0
    /\ ens = [pc |-> "idle", k |-> 0, probe |-> "none", created |-> 0, ret |-> "none", prev |-> "none"]

\* ---------------------------------------------------------------------------
\* workspace.json as JSON (domain/workspace.rs, domain/session.rs: the serde
\* derives; infra/state.rs: load, save)
\* ---------------------------------------------------------------------------
\* A JSON object is the function from the keys present in it to their values.
\* Of the fields without #[serde(default)] one per object is kept (name, id);
\* the document holds the workspace object and one session object.
WorkspaceKinds == {"SingleRepo", "MultiRepo"}

\* #[default] of WorkspaceKind
DefaultKindMulti == "MultiRepo"
DefaultKind == "SingleRepo"

NoState == [none |-> TRUE]

\* Objects over `keys`, `req` being the required key, `k1` and `k2` the
\* defaulted ones with values from V1 and V2.
JsonObjects(req, reqv, k1, V1, k2, V2) ==
    {[k \in present |-> IF k = req THEN reqv ELSE IF k = k1 THEN v1 ELSE v2] :
        present \in SUBSET {req, k1, k2}, v1 \in V1, v2 \in V2}

JsonDocs ==
    [workspace : JsonObjects("name", "ws", "kind", WorkspaceKinds \cup {"Other"}, "repos", SUBSET Repos),
     session   : JsonObjects("id", 1, "is_main", BOOLEAN, "repo_worktrees", SUBSET Repos)]

\* serde_json::from_str::<WorkspaceState>: a missing required field or an
\* unknown enum variant is an error; a missing #[serde(default)] field takes
\* Default::default().
Deserialize(json) ==
    LET w == json.workspace
        x == json.session
    IN IF \/ "name" \notin DOMAIN w
          \/ "id" \notin DOMAIN x
          \/ "kind" \in DOMAIN w /\ w.kind \notin WorkspaceKinds
       THEN [res |-> "StateError", state |-> NoState]
       ELSE [res |-> "Ok",
             state |-> [workspace |-> [name  |-> w.name,
                                       kind  |-> IF "kind" \in DOMAIN w THEN w.kind ELSE DefaultKind,
                                       repos |-> IF "repos" \in DOMAIN w THEN w.repos ELSE {}],
                        session   |-> [id      |-> x.id,
                                       is_main |-> IF "is_main" \in DOMAIN x THEN x.is_main ELSE FALSE,
                                       repo_worktrees |-> IF "repo_worktrees" \in DOMAIN x
                                                          THEN x.repo_worktrees ELSE {}]]]

\* serde_json::to_string_pretty: every field is written, none is skipped.
Serialize(state) ==
    [workspace |-> [k \in {"name", "kind", "repos"} |->
                       IF k = "name" THEN state.workspace.name
                       ELSE IF k = "kind" THEN state.workspace.kind
                       ELSE state.workspace.repos],
     session   |-> [k \in {"id", "is_main", "repo_worktrees"} |->
                       IF k = "id" THEN state.session.id
                       ELSE IF k = "is_main" THEN state.session.is_main
                       ELSE state.session.repo_worktrees]]

NotLoaded == [res |-> "none", state |-> NoState, json |-> <<>>, writer |-> "", of |-> NoState]

\* The document written by `vibe init`.
InitDoc == Serialize([workspace |-> [name |-> "ws", kind |-> DefaultKind, repos |-> {}],
                      session   |-> [id |-> 1, is_main |-> FALSE, repo_worktrees |-> {}]])

InitCompat ==
    /\ legacy = InitDoc
    /\ file = [json |-> InitDoc, writer |-> "legacy", of |-> NoState]
    /\ mem = NotLoaded

\* StateManager::load
CompatLoad ==
    /\ mem' = [res    |-> Deserialize(file.json).res,
               state  |-> Deserialize(file.json).state,
               json   |-> file.json,
               writer |-> file.writer,
               of     |-> file.of]
    /\ UNCHANGED <<legacy, file, storeVars, provVars, facadeVars, appVars, muxVars>>

\* StateManager::save of the state loaded last
CompatSave ==
    /\ mem.res = "Ok"
    /\ file' = [json |-> Serialize(mem.state), writer |-> "save", of |-> mem.state]
    /\ UNCHANGED <<legacy, mem, storeVars, provVars, facadeVars, appVars, muxVars>>

Init == InitStore /\ InitProv /\ InitFacadeIdle /\ InitApp /\ InitMux /\ InitCompat

InitSessions == InitStore /\ InitProv /\ InitFacade /\ InitApp /\ InitMux /\ InitCompat

\* Any document an earlier version may have left on disk.
InitLegacy ==
    /\ InitStore /\ InitProv /\ InitFacadeIdle /\ InitApp /\ InitMux
    /\ legacy \in JsonDocs
    /\ file = [json |-> legacy, writer |-> "legacy", of |-> NoState]
    /\ mem = NotLoaded

NextCompat == CompatLoad \/ CompatSave

SpecCompat == InitLegacy /\ [][NextCompat]_vars


\* save, step 1 (fs::write opens the temporary file with create+truncate).
\* serial = TRUE restricts to one save in flight.
SaveOpen(p, d, serial) ==
    /\ sv[p].pc = "idle"
    /\ serial => \A q \in Procs : sv[q].pc = "idle"
    /\ LET path == SaveTmpPath
           ino  == IF dir[path] = 0 THEN FreeInode ELSE dir[path]
           sv2  == [sv EXCEPT ![p] = [pc |-> "writing", fd |-> ino, doc |-> d, off |-> 0]]
           dir2 == [dir EXCEPT ![path] = ino]
       IN /\ hist' = [prev |-> (IF dir["canon"] = 0 THEN -1 ELSE FromJson(inodes[dir["canon"]]).doc),
                      new |-> d, crashAt |-> "none"]
          /\ sv' = sv2
          /\ dir' = dir2
          /\ inodes' = Reclaim([inodes EXCEPT ![ino] = <<>>], dir2, sv2)
    /\ UNCHANGED <<loaded, provVars, facadeVars, appVars, muxVars, compatVars>>

\* save, step 2 (fs::write writes the text, chunk by chunk, then closes).
SaveWrite(p) ==
    /\ sv[p].pc = "writing"
    /\ LET k   == sv[p].off + 1
           fin == k = DocLen
           sv2 == [sv EXCEPT ![p] = [pc |-> IF fin THEN "written" ELSE "writing",
                                     fd |-> IF fin THEN 0 ELSE sv[p].fd,
                                     doc |-> sv[p].doc, off |-> k]]
       IN /\ sv' = sv2
          /\ inodes' = Reclaim([inodes EXCEPT ![sv[p].fd] = WriteAt(inodes[sv[p].fd], k, sv[p].doc)], dir, sv2)
    /\ UNCHANGED <<dir, loaded, hist, provVars, facadeVars, appVars, muxVars, compatVars>>

\* save, step 3 (fs::rename of the temporary file over workspace.json);
\* fails when the temporary file is gone.
SaveRename(p) ==
    /\ sv[p].pc = "written"
    /\ LET path == SaveTmpPath
           sv2  == [sv EXCEPT ![p] = IdleProc]
           dir2 == IF dir[path] = 0 \/ path = "canon" THEN dir
                   ELSE [dir EXCEPT !["canon"] = dir[path], ![path] = 0]
       IN /\ sv' = sv2
          /\ dir' = dir2
          /\ inodes' = Reclaim(inodes, dir2, sv2)
    /\ UNCHANGED <<loaded, hist, provVars, facadeVars, appVars, muxVars, compatVars>>

\* The saving process dies before the rename.
Crash(p) ==
    /\ sv[p].pc \in {"writing", "written"}
    /\ hist' = [hist EXCEPT !.crashAt = sv[p].pc]
    /\ LET sv2 == [sv EXCEPT ![p] = IdleProc]
       IN /\ sv' = sv2
          /\ inodes' = Reclaim(inodes, dir, sv2)
    /\ UNCHANGED <<dir, loaded, provVars, facadeVars, appVars, muxVars, compatVars>>

\* load: NotInitialized when workspace.json is absent, else read and parse.
Load ==
    /\ loaded' = IF dir["canon"] = 0
                 THEN [res |-> "NotInitialized", doc |-> -1, afterCrash |-> FALSE,
                       prev |-> -1, new |-> -1, crashAt |-> "none"]
                 ELSE LET r == FromJson(inodes[dir["canon"]])
                      IN [res |-> r.res, doc |-> r.doc, afterCrash |-> hist.crashAt # "none",
                          prev |-> hist.prev, new |-> hist.new, crashAt |-> hist.crashAt]
    /\ UNCHANGED <<inodes, dir, sv, hist, provVars, facadeVars, appVars, muxVars, compatVars>>

NextStore ==
    \/ \E p \in Procs, d \in 1..NumDocs : SaveOpen(p, d, TRUE)
    \/ \E p \in Procs : SaveWrite(p)
    \/ \E p \in Procs : SaveRename(p)
    \/ \E p \in Procs : Crash(p)
    \/ Load

NextStoreRace ==
    \/ \E p \in Procs, d \in 1..NumDocs : SaveOpen(p, d, FALSE)
    \/ \E p \in Procs : SaveWrite(p)
    \/ \E p \in Procs : SaveRename(p)
    \/ Load


SpecStore == Init /\ [][NextStore]_vars
SpecStoreRace == Init /\ [][NextStoreRace]_vars

\* ---------------------------------------------------------------------------
\* Claims about the state store
\* ---------------------------------------------------------------------------

\* C1: a load that follows a save interrupted before its rename returns the
\* complete document saved before it or the complete new one, never a
\* partial one.
C1_CrashAtomic ==
    loaded.afterCrash =>
        /\ loaded.res = "Ok"
        /\ loaded.doc \in {loaded.prev, loaded.new}

\* A load after a crash between the temp-write and the rename returned the
\* previous document, which differs from the one being saved.
C1_Witness ==
    /\ loaded.afterCrash
    /\ loaded.crashAt = "written"
    /\ loaded.res = "Ok"
    /\ loaded.doc = loaded.prev
    /\ loaded.prev # loaded.new

\* C2: with concurrent saves, workspace.json never holds a partially written
\* document and no load observes one.
C2_NoPartialUnderRace ==
    /\ dir["canon"] # 0 => FromJson(inodes[dir["canon"]]).res = "Ok"
    /\ loaded.res # "StateError"

\* ---------------------------------------------------------------------------
\* Sessions and agents: domain/{session,agent,workspace}.rs
\* ---------------------------------------------------------------------------
Names    == {"main", "a"}            \* session names a user types
RootPath == <<0, 0>>                 \* workspace.root
SessionDir(k) == <<k, 0>>            \* {base}/{repo}-vibe-{short_id}
RepoDir(k, r) == <<k, r>>            \* {session_root}/{repo_name}

Min(S) == CHOOSE x \in S : \A y \in S : x <= y

\* Path::exists; the workspace root holds .vibe/workspace.json and exists
\* whenever the state could be loaded.
Exists(ws, p) == p = RootPath \/ p \in ws

\* Session::new
SessionNew(id, name, path) ==
    [id |-> id, name |-> name, status |-> "Creating", is_main |-> FALSE,
     worktree_path |-> path, repo_worktrees |-> {}, agents |-> <<>>]

\* Session::is_active
IsActive(s) == s.status \in {"Active", "Creating"}

\* Agent::new
AgentNew(id, parent) ==
    [id |-> id, parent_session |-> parent, mode |-> "Headless", status |-> "Queued", tmux_pane |-> 0]

\* Agent::is_done
IsDone(a) == a.status \in {"Completed", "Failed", "Ingested"}

\* WorkspaceState::find_session_by_name: index of the first match, 0 = None.
FindSessionByName(st, name) ==
    LET idx == {i \in 1..Len(st.sessions) : st.sessions[i].name = name}
    IN IF idx = {} THEN 0 ELSE Min(idx)

\* WorkspaceState::find_session_by_id
FindSessionById(st, id) ==
    LET idx == {i \in 1..Len(st.sessions) : st.sessions[i].id = id}
    IN IF idx = {} THEN 0 ELSE Min(idx)

\* WorkspaceState::find_agent_by_id: index of the first match, 0 = None.
FindAgentById(st, id) ==
    LET idx == {i \in 1..Len(st.agents) : st.agents[i].id = id}
    IN IF idx = {} THEN 0 ELSE Min(idx)

SessionSet(st) == {st.sessions[i] : i \in 1..Len(st.sessions)}
AgentSet(st) == {st.agents[i] : i \in 1..Len(st.agents)}

\* ---------------------------------------------------------------------------
\* Multi-repo provisioning (commands/new.rs, create_multi_repo_worktrees)
\* ---------------------------------------------------------------------------
TaskOutcomes == {"ok", "err", "panic"}

\* create_dir_all(session_root)?, then one task spawned per repository.
ProvStart ==
    /\ prov.pc = "start"
    /\ \E mkdirOk \in BOOLEAN :
         IF mkdirOk
         THEN /\ provfs' = [provfs EXCEPT !.session_root = TRUE]
              /\ task' = [r \in Repos |-> [st |-> "running", out |-> "none"]]
              /\ prov' = [prov EXCEPT !.pc = "joining"]
         ELSE /\ prov' = [prov EXCEPT !.pc = "done", !.result = "IoErr"]
              /\ UNCHANGED <<task, provfs>>
    /\ UNCHANGED <<joinq, storeVars, facadeVars, appVars, muxVars, compatVars>>

\* One spawned task runs git::create_worktree_at to its end (or panics); the
\* working copy exists afterwards exactly when the call returned Ok.
TaskFinish(r, out) ==
    /\ task[r].st = "running"
    /\ task' = [task EXCEPT ![r] = [st |-> "finished", out |-> out]]
    /\ joinq' = Append(joinq, r)
    /\ provfs' = IF out = "ok" THEN [provfs EXCEPT !.wt = @ \cup {r}] ELSE provfs
    /\ UNCHANGED <<prov, storeVars, facadeVars, appVars, muxVars, compatVars>>

\* One iteration of `while let Some(result) = join_set.join_next().await`.
JoinNext ==
    /\ prov.pc = "joining"
    /\ joinq # <<>>
    /\ LET r == Head(joinq)
       IN /\ joinq' = Tail(joinq)
          /\ task' = [task EXCEPT ![r].st = "joined"]
          /\ prov' = IF task[r].out = "ok"
                     THEN [prov EXCEPT !.repo_worktrees = @ \cup {r},
                                       !.successes = @ + 1,
                                       !.order = Append(@, r)]
                     ELSE [prov EXCEPT !.errors = @ + 1,
                                       !.order = Append(@, r)]
    /\ UNCHANGED <<provfs, storeVars, facadeVars, appVars, muxVars, compatVars>>

\* join_next() returns None: the join set holds no task any more.
JoinSetDrainedNoWait == joinq = <<>>
JoinSetDrained == \A r \in Repos : task[r].st = "joined"

\* `if successes == 0`
NoSuccessIgnored(p) == FALSE
NoSuccess(p) == p.successes = 0

\* After the loop: no success removes session_root and fails, else Ok. Every
\* task has been joined by then, so nothing is still writing below
\* session_root when remove_dir_all runs.
ProvDecide ==
    /\ prov.pc = "joining"
    /\ JoinSetDrained
    /\ IF NoSuccess(prov)
       THEN /\ provfs' = [provfs EXCEPT !.session_root = FALSE]
            /\ prov' = [prov EXCEPT !.pc = "done", !.result = "GitErr"]
       ELSE /\ prov' = [prov EXCEPT !.pc = "done", !.result = "Ok"]
            /\ UNCHANGED provfs
    /\ UNCHANGED <<task, joinq, storeVars, facadeVars, appVars, muxVars, compatVars>>

\* The session whose working copies are being provisioned.
ProvName == "a"

\* execute (new.rs:50-134) once create_multi_repo_worktrees has returned: `?`
\* propagates its error; otherwise the window is created and the session is
\* pushed and saved. fail is the later step that returns an error.
NewAfterProvision(fail) ==
    /\ prov.pc = "done"
    /\ prov' = [prov EXCEPT !.pc = "returned"]
    /\ IF prov.result # "Ok"
       THEN /\ last' = [NoOp EXCEPT !.op = "new", !.target = ProvName, !.result = prov.result]
            /\ UNCHANGED <<disk, windows>>
       ELSE /\ windows' = IF fail = "tmux" THEN windows ELSE windows \cup {ProvName}
            /\ disk' = IF fail = "none"
                       THEN [disk EXCEPT !.sessions = Append(@,
                                [SessionNew(nextId, ProvName, SessionDir(nextId)) EXCEPT
                                    !.repo_worktrees = prov.repo_worktrees,
                                    !.status = "Active"])]
                       ELSE disk
            /\ last' = [NoOp EXCEPT !.op = "new", !.target = ProvName,
                                    !.result = CASE fail = "none" -> "Ok"
                                                 [] fail = "save" -> "IoErr"
                                                 [] OTHER -> "TmuxErr"]
    /\ UNCHANGED <<task, joinq, provfs, kind, repos, wts, panes, dash, nextId, nextAgent, storeVars, appVars, muxVars, compatVars>>

NextProv ==
    \/ ProvStart
    \/ \E r \in Repos, out \in TaskOutcomes : TaskFinish(r, out)
    \/ JoinNext
    \/ ProvDecide
    \/ \E fail \in {"none", "tmux", "send_keys", "save"} : NewAfterProvision(fail)

SpecProv == Init /\ [][NextProv]_vars

Succeeded == {r \in Repos : task[r].out = "ok"}

\* C10: the call decides only after all N tasks have finished, whatever their
\* completion order; when some but not all succeeded it returns Ok with a
\* map of exactly the repositories whose working copy was created.
C10_JoinAllThenPartialOk ==
    (prov.pc = "done" /\ prov.result # "IoErr") =>
        /\ \A r \in Repos : task[r].st = "joined"
        /\ (Succeeded # {} /\ Succeeded # Repos) =>
              /\ prov.result = "Ok"
              /\ prov.repo_worktrees = Succeeded
              /\ prov.repo_worktrees = provfs.wt

\* Repository 2 failed, all others succeeded, and the tasks completed in an
\* order other than the spawn order.
C10_Witness ==
    /\ prov.pc = "done"
    /\ prov.result = "Ok"
    /\ task[2].out = "err"
    /\ prov.repo_worktrees = Repos \ {2}
    /\ prov.order[1] = NRepos

RemovalTargets(s, ws) ==
    IF s.repo_worktrees = {}
    THEN IF Exists(ws, s.worktree_path) THEN {s.worktree_path} ELSE {}
    ELSE {RepoDir(s.worktree_path[1], r) : r \in {q \in s.repo_worktrees : RepoDir(s.worktree_path[1], q) \in ws}}
         \cup (IF Exists(ws, s.worktree_path) THEN {s.worktree_path} ELSE {})

\* The directories left when the removals of `targets` succeed (ok) or fail.
AfterRemoval(ws, targets, ok) ==
    IF ok
    THEN {p \in ws : ~ \E t \in targets : p = t \/ (t[2] = 0 /\ p[1] = t[1])}
    ELSE ws

\* ---------------------------------------------------------------------------
\* vibe new (commands/new.rs, execute)
\* ---------------------------------------------------------------------------
NewFailPoints == {"none", "git", "tmux", "template", "send_keys", "save"}

\* The duplicate check of new: any session of that name, whatever its status.
NameTakenNonArchived(st, name) ==
    \E s \in SessionSet(st) : s.name = name /\ s.status # "Archived"
NameTaken(st, name) == FindSessionByName(st, name) # 0

\* The step at which it can fail: none is reached when the name is taken.
NewOutcomes(name) == IF NameTaken(disk, name) THEN {"none"} ELSE NewFailPoints

\* S is the set of repositories whose working copy gets created (multi-repo);
\* fail is the step that returns an error.
NewCmd(name, headless, has_prompt, has_template, S, fail) ==
    LET dup     == NameTaken(disk, name)
        k       == nextId
        gitFail == IF kind = "SingleRepo" THEN fail = "git" ELSE S = {}
        created == IF kind = "SingleRepo" THEN {SessionDir(k)}
                   ELSE {SessionDir(k)} \cup {RepoDir(k, r) : r \in S}
        session == [SessionNew(k, name, SessionDir(k)) EXCEPT
                       !.repo_worktrees = IF kind = "SingleRepo" THEN {} ELSE S,
                       !.status = "Active"]
        res     == IF dup THEN "UserError"
                   ELSE IF gitFail THEN "GitErr"
                   ELSE IF fail = "tmux" THEN "TmuxErr"
                   ELSE IF fail = "template" /\ has_template THEN "TemplateErr"
                   ELSE IF headless /\ ~has_prompt THEN "UserError"
                   ELSE IF fail = "send_keys" THEN "TmuxErr"
                   ELSE IF fail = "save" THEN "IoErr"
                   ELSE "Ok"
    IN /\ nextId <= MaxIds \/ FindSessionByName(disk, name) # 0
       /\ IF dup \/ gitFail
          THEN UNCHANGED <<disk, windows, wts, nextId>>
          ELSE /\ wts' = wts \cup created
               /\ nextId' = nextId + 1
               /\ windows' = IF fail = "tmux" THEN windows ELSE windows \cup {name}
               /\ disk' = IF res = "Ok"
                          THEN [disk EXCEPT !.sessions = Append(@, session)]
                          ELSE disk
       /\ last' = [NoOp EXCEPT !.op = "new", !.target = name, !.result = res]
       /\ UNCHANGED <<kind, repos, panes, dash, nextAgent, storeVars, provVars, appVars, muxVars, compatVars>>

\* ---------------------------------------------------------------------------
\* vibe kill (commands/kill.rs, execute)
\* ---------------------------------------------------------------------------
\* state.agents.retain / state.sessions.retain
RemoveSessionKeepAgents(st, sid) ==
    [sessions |-> SelectSeq(st.sessions, LAMBDA x : x.id # sid),
     agents   |-> st.agents]
RemoveSession(st, sid) ==
    [sessions |-> SelectSeq(st.sessions, LAMBDA x : x.id # sid),
     agents   |-> SelectSeq(st.agents, LAMBDA a : a.parent_session # sid)]

\* `if session.is_main { return Err(User) }`
KillRefusesMainNever(s) == FALSE
KillRefusesMain(s) == s.is_main

\* `if !force && session.is_active() { return Ok(()) }`
KillSkipsActiveNever(s, force) == FALSE
KillSkipsActive(s, force) == ~force /\ IsActive(s)

\* winOk / rmOk: whether the best-effort kill_window / working-copy removal
\* succeed; saveOk: whether the final save does.
KillExec(target, force, winOk, rmOk, saveOk, opname) ==
    LET i == FindSessionByName(disk, target)
        base == [NoOp EXCEPT !.op = opname, !.target = target, !.force = force]
    IN IF i = 0
       THEN /\ last' = [base EXCEPT !.result = "SessionNotFound"]
            /\ UNCHANGED <<disk, windows, wts>>
       ELSE LET s == disk.sessions[i]
                targets == RemovalTargets(s, wts)
            IN IF KillRefusesMain(s)
               THEN /\ last' = [base EXCEPT !.result = "UserError"]
                    /\ UNCHANGED <<disk, windows, wts>>
               ELSE IF KillSkipsActive(s, force)
               THEN /\ last' = base
                    /\ UNCHANGED <<disk, windows, wts>>
               ELSE /\ windows' = IF winOk THEN windows \ {s.name} ELSE windows
                    /\ wts' = AfterRemoval(wts, targets, rmOk)
                    /\ disk' = IF saveOk THEN RemoveSession(disk, s.id) ELSE disk
                    /\ last' = [base EXCEPT !.result = IF saveOk THEN "Ok" ELSE "IoErr",
                                            !.removed = targets,
                                            !.agents = Cardinality({a \in AgentSet(disk) :
                                                                      a.parent_session = s.id})]

\* The outcomes its external steps can have: they are only run when the kill
\* gets past the lookup and the two early returns.
KillOutcomes(target, force) ==
    LET i == FindSessionByName(disk, target)
    IN IF i # 0 /\ ~KillRefusesMain(disk.sessions[i]) /\ ~KillSkipsActive(disk.sessions[i], force)
       THEN BOOLEAN ELSE {TRUE}

KillCmd(target, force, delete_branch, winOk, rmOk, saveOk) ==
    /\ KillExec(target, force, winOk, rmOk, saveOk, "kill")
    /\ UNCHANGED <<kind, repos, panes, dash, nextId, nextAgent, storeVars, provVars, appVars, muxVars, compatVars>>

\* ---------------------------------------------------------------------------
\* vibe cleanup (commands/cleanup.rs, execute)
\* ---------------------------------------------------------------------------
CleanupSelectsAll(s, all) == all \/ s.status = "Archived"
CleanupSelects(s, all) ==
    IF all THEN s.status \in {"Archived", "Completed"} ELSE s.status = "Archived"

\* The outcomes its external steps can have: none is run on an empty
\* selection or a dry run.
CleanupOutcomes(all, dry_run) ==
    IF dry_run \/ \A s \in SessionSet(disk) : ~CleanupSelects(s, all)
    THEN {TRUE} ELSE BOOLEAN

\* state.sessions.retain / state.agents.retain over the cleaned ids.
CleanupRetainKeepAgents(st, clean_ids) ==
    [sessions |-> SelectSeq(st.sessions, LAMBDA s : s.id \notin clean_ids),
     agents   |-> st.agents]
CleanupRetain(st, clean_ids) ==
    [sessions |-> SelectSeq(st.sessions, LAMBDA s : s.id \notin clean_ids),
     agents   |-> SelectSeq(st.agents, LAMBDA a : a.parent_session \notin clean_ids)]

\* pruneOk: whether the closing `git worktree prune` succeeds.
CleanupCmd(all, dry_run, rmOk, saveOk, pruneOk) ==
    LET to_clean  == SelectSeq(disk.sessions, LAMBDA s : CleanupSelects(s, all))
        clean_ids == {to_clean[i].id : i \in 1..Len(to_clean)}
        targets   == UNION {RemovalTargets(to_clean[i], wts) : i \in 1..Len(to_clean)}
        kept      == CleanupRetain(disk, clean_ids)
        base      == [NoOp EXCEPT !.op = "cleanup", !.all = all, !.dry_run = dry_run]
    IN /\ IF to_clean = <<>> \/ dry_run
          THEN /\ last' = base
               /\ UNCHANGED <<disk, wts>>
          ELSE /\ wts' = AfterRemoval(wts, targets, rmOk)
               /\ disk' = IF saveOk THEN kept ELSE disk
               /\ last' = [base EXCEPT !.result = IF ~saveOk THEN "IoErr"
                                                   ELSE IF ~pruneOk THEN "GitErr" ELSE "Ok",
                                       !.removed = targets,
                                       !.agents = Len(disk.agents) - Len(kept.agents)]
       /\ UNCHANGED <<kind, repos, windows, panes, dash, nextId, nextAgent, storeVars, provVars, appVars, muxVars, compatVars>>

\* The documents cleanup can load: load accepts any document of the
\* WorkspaceState type, so the stored sessions carry any SessionStatus and
\* the stored agents any parent; session 2 is the main session.
SessionStatuses == {"Creating", "Active", "Paused", "Completed", "Failed", "Archived"}

StoredSession(i, status) ==
    [SessionNew(i, IF i = 2 THEN "main" ELSE "a", IF i = 2 THEN RootPath ELSE SessionDir(i))
        EXCEPT !.status = status, !.is_main = (i = 2)]

InitStored ==
    /\ InitStore /\ InitProv /\ InitApp /\ InitMux /\ InitCompat
    /\ kind \in {"SingleRepo", "MultiRepo"}
    /\ repos = IF kind = "MultiRepo" THEN WsRepos ELSE {}
    /\ \E status \in [1..NumStored -> SessionStatuses], parent \in [1..NumStored -> 1..NumStored] :
          disk = [sessions |-> [i \in 1..NumStored |-> StoredSession(i, status[i])],
                  agents   |-> [i \in 1..NumStored |->
                                  [AgentNew(i, parent[i]) EXCEPT !.status = "Running"]]]
    /\ wts \in SUBSET {SessionDir(i) : i \in (1..NumStored) \ {2}}
    /\ windows = {}
    /\ panes = {}
    /\ dash = [running |-> FALSE, input_mode |-> "Normal"]
    /\ nextId = NumStored + 1
    /\ nextAgent = NumStored + 1
    /\ last = NoOp

NextCleanup ==
    \E all \in BOOLEAN, dry_run \in BOOLEAN :
       \E rmOk \in CleanupOutcomes(all, dry_run), saveOk \in CleanupOutcomes(all, dry_run),
          pruneOk \in CleanupOutcomes(all, dry_run) :
          CleanupCmd(all, dry_run, rmOk, saveOk, pruneOk)

SpecCleanup == InitStored /\ [][NextCleanup]_vars

\* ---------------------------------------------------------------------------
\* vibe doctor (commands/doctor.rs, execute), step 4: session sweep
\* ---------------------------------------------------------------------------
\* W: session.worktree_path.exists(); T: select_window on the session's window succeeds.
DoctorStatusNoArchive(s, W, T) ==
    IF s.status = "Archived" THEN s.status
    ELSE IF ~W THEN "Failed"
    ELSE IF ~T /\ s.status = "Active" THEN "Paused"
    ELSE s.status
DoctorStatus(s, W, T) ==
    IF s.status = "Archived" THEN s.status
    ELSE IF ~W /\ ~T THEN "Archived"
    ELSE IF ~W THEN "Failed"
    ELSE IF ~T /\ s.status = "Active" THEN "Paused"
    ELSE s.status

DoctorSweep(st, ws, wins) ==
    [st EXCEPT !.sessions =
        [i \in 1..Len(st.sessions) |->
            [st.sessions[i] EXCEPT !.status =
                DoctorStatus(st.sessions[i], Exists(ws, st.sessions[i].worktree_path),
                             st.sessions[i].name \in wins)]]]

\* `fixed > 0`: some session took one of the three repairing branches.
DoctorFixed(st, ws, wins) ==
    \E s \in SessionSet(st) :
        /\ s.status # "Archived"
        /\ \/ ~Exists(ws, s.worktree_path)
           \/ (s.name \notin wins /\ s.status = "Active")

\* listOk: whether listing the worktrees (step 5, before the save) succeeds.
DoctorCmd(listOk, saveOk) ==
    LET swept == DoctorSweep(disk, wts, windows)
        fixed == DoctorFixed(disk, wts, windows)
        res   == IF ~listOk THEN "GitErr" ELSE IF fixed /\ ~saveOk THEN "IoErr" ELSE "Ok"
    IN /\ disk' = IF res = "Ok" THEN swept ELSE disk
       /\ last' = [NoOp EXCEPT !.op = "doctor", !.result = res]
       /\ UNCHANGED <<kind, repos, windows, wts, panes, dash, nextId, nextAgent, storeVars, provVars, appVars, muxVars, compatVars>>

\* ---------------------------------------------------------------------------
\* vibe spawn (commands/spawn.rs, execute)
\* ---------------------------------------------------------------------------
SpawnFailPoints == {"none", "template", "split", "send_keys", "save"}

\* The parent: the named session, else the most recently created active one.
SpawnParent(st, target) ==
    IF target # "" THEN FindSessionByName(st, target)
    ELSE LET act == {i \in 1..Len(st.sessions) : IsActive(st.sessions[i])}
         IN IF act = {} THEN 0
            ELSE CHOOSE i \in act : \A j \in act : st.sessions[j].id <= st.sessions[i].id

\* state.agents.push(agent); parent.agents.push(agent_id)
AddAgentUnlisted(st, agent) ==
    [sessions |-> st.sessions, agents |-> Append(st.agents, agent)]
AddAgent(st, agent) ==
    LET pi == FindSessionById(st, agent.parent_session)
    IN [sessions |-> IF pi = 0 THEN st.sessions
                     ELSE [st.sessions EXCEPT ![pi].agents = Append(@, agent.id)],
        agents   |-> Append(st.agents, agent)]

SpawnCmd(target, interactive, fail) ==
    LET pi   == SpawnParent(disk, target)
        k    == nextAgent
        base == [NoOp EXCEPT !.op = "spawn", !.target = target]
    IN /\ nextAgent <= MaxAgents
       /\ IF pi = 0
          THEN /\ last' = [base EXCEPT !.result = IF target # "" THEN "SessionNotFound" ELSE "UserError"]
               /\ UNCHANGED <<disk, panes, nextAgent>>
          ELSE LET parent == disk.sessions[pi]
                   agent  == [AgentNew(k, parent.id) EXCEPT
                                 !.mode = IF interactive THEN "Interactive" ELSE "Headless",
                                 !.status = "Running",
                                 !.tmux_pane = IF interactive THEN k ELSE 0]
               IN IF fail = "template"
                  THEN /\ last' = [base EXCEPT !.result = "TemplateErr"]
                       /\ UNCHANGED <<disk, panes, nextAgent>>
                  ELSE IF interactive /\ (fail = "split" \/ parent.name \notin windows)
                  THEN /\ last' = [base EXCEPT !.result = "TmuxErr"]
                       /\ UNCHANGED <<disk, panes, nextAgent>>
                  ELSE /\ panes' = IF interactive THEN panes \cup {k} ELSE panes
                       /\ nextAgent' = nextAgent + 1
                       /\ IF interactive /\ fail = "send_keys"
                          THEN /\ last' = [base EXCEPT !.result = "TmuxErr"]
                               /\ UNCHANGED disk
                          ELSE IF fail = "save"
                          THEN /\ last' = [base EXCEPT !.result = "IoErr"]
                               /\ UNCHANGED disk
                          ELSE /\ disk' = AddAgent(disk, agent)
                               /\ last' = base
       /\ UNCHANGED <<kind, repos, windows, wts, dash, nextId, storeVars, provVars, appVars, muxVars, compatVars>>

\* ---------------------------------------------------------------------------
\* vibe review, headless (commands/review.rs, execute)
\* ---------------------------------------------------------------------------
\* The parent of the review agent: the id of the first active session, else a
\* fresh uuid, which is the id of no session (0).
ReviewParent(st) ==
    LET act == SelectSeq(st.sessions, IsActive)
    IN IF act = <<>> THEN 0 ELSE act[1].id

\* fail: "fetch" (gh or the reviewer template fails, before anything is
\* changed), "save", or "none". The agent is pushed and the state saved.
ReviewCmd(fail) ==
    LET agent == [AgentNew(nextAgent, ReviewParent(disk)) EXCEPT !.status = "Running"]
    IN /\ nextAgent <= MaxAgents
       /\ IF fail = "fetch"
          THEN UNCHANGED <<disk, nextAgent>>
          ELSE /\ nextAgent' = nextAgent + 1
               /\ disk' = IF fail = "save" THEN disk
                          ELSE [disk EXCEPT !.agents = Append(@, agent)]
       /\ last' = [NoOp EXCEPT !.op = "review",
                                !.result = IF fail = "none" THEN "Ok" ELSE "Err"]
       /\ UNCHANGED <<kind, repos, windows, wts, panes, dash, nextId, storeVars, provVars, appVars, muxVars, compatVars>>

\* ---------------------------------------------------------------------------
\* Dashboard (tui/mod.rs, tui/app.rs)
\* ---------------------------------------------------------------------------
\* `let has_main = state.sessions.iter().any(|s| s.is_main)`
HasMainIgnored(st) == FALSE
HasMain(st) == \E s \in SessionSet(st) : s.is_main

\* ensure_main_session: insert the main session at the front unless one exists.
EnsureMainSession(st, id) ==
    IF HasMain(st) THEN st
    ELSE [st EXCEPT !.sessions =
             <<[SessionNew(id, "main", RootPath) EXCEPT !.is_main = TRUE, !.status = "Active"]>> \o @]

\* start_background_sessions: walk a clone of the non-archived sessions; for
\* each one without a window create it and mark the first session of that
\* name Active. cwOk: whether create_window succeeds.
RECURSIVE StartBackground(_, _, _, _, _)
StartBackground(todo, i, st, wins, cwOk) ==
    IF i > Len(todo) THEN [state |-> st, windows |-> wins]
    ELSE LET s == todo[i]
             j == FindSessionByName(st, s.name)
         IN IF s.name \in wins \/ ~cwOk
            THEN StartBackground(todo, i + 1, st, wins, cwOk)
            ELSE StartBackground(todo, i + 1,
                                 [st EXCEPT !.sessions[j].status = "Active"],
                                 wins \cup {s.name}, cwOk)

\* status = Failed("tmux pane lost"); tmux_pane = None
PaneLostRequeues(a) == [a EXCEPT !.status = "Queued", !.tmux_pane = 0]
PaneLost(a) == [a EXCEPT !.status = "Failed", !.tmux_pane = 0]

\* `if agent.tmux_pane.is_none() || agent.is_done() { continue; }`
NeedsCheck(a) == a.tmux_pane # 0 /\ ~IsDone(a)

\* `let idx = self.reconcile_next_agent % agent_count;`
NextIndexUnwrapped(cursor, n) == cursor
NextIndex(cursor, n) == cursor % n

\* `self.reconcile_next_agent = idx + 1;`
AdvanceCursorStuck(idx) == idx
AdvanceCursor(idx) == idx + 1

\* App::reconcile_tmux_state: check one agent per call, round robin.
RECURSIVE ReconcileScan(_, _, _, _)
ReconcileScan(st, cursor, checked, pns) ==
    LET n == Len(st.agents) IN
    IF checked >= n THEN [state |-> st, cursor |-> cursor, read |-> {}, checks |-> 0]
    ELSE LET idx == NextIndex(cursor, n)
             nxt == AdvanceCursor(idx)
         IN IF idx >= n        \* `&self.state.agents[idx]` past the end panics
            THEN [state |-> st, cursor |-> nxt, read |-> {idx}, checks |-> 0]
            ELSE LET a == st.agents[idx + 1]
                 IN IF ~NeedsCheck(a)
                    THEN [ReconcileScan(st, nxt, checked + 1, pns) EXCEPT !.read = @ \cup {idx}]
                    ELSE IF a.tmux_pane \notin pns
                    THEN [state  |-> [st EXCEPT !.agents[idx + 1] = PaneLost(a)],
                          cursor |-> nxt, read |-> {idx}, checks |-> 1]
                    ELSE [state |-> st, cursor |-> nxt, read |-> {idx}, checks |-> 1]

\* read: the indices at which the agent list was read; checks: the number of
\* pane_exists calls made.
RECURSIVE ReconcileFullFrom(_, _, _)

ReconcileTmuxStateSweeps(st, cursor, pns) ==
    [state |-> ReconcileFullFrom(st, 1, pns), cursor |-> 0, read |-> {},
     checks |-> Cardinality({i \in 1..Len(st.agents) : NeedsCheck(st.agents[i])})]
ReconcileTmuxState(st, cursor, pns) ==
    IF Len(st.agents) = 0 THEN [state |-> st, cursor |-> 0, read |-> {}, checks |-> 0]
    ELSE ReconcileScan(st, cursor, 0, pns)

\* App::reconcile_tmux_state_full: one pass over all agents.
ReconcileFullFrom(st, i, pns) ==
    IF i > Len(st.agents) THEN st
    ELSE LET a == st.agents[i]
         IN IF ~NeedsCheck(a) \/ a.tmux_pane \in pns
            THEN ReconcileFullFrom(st, i + 1, pns)
            ELSE ReconcileFullFrom([st EXCEPT !.agents[i] = PaneLost(a)], i + 1, pns)

ReconcileTmuxStateFullNoSave(st, pns) ==
    [state |-> ReconcileFullFrom(st, 1, pns), needs_save |-> FALSE]
ReconcileTmuxStateFull(st, pns) ==
    LET out == ReconcileFullFrom(st, 1, pns)
    IN [state |-> out, needs_save |-> out # st]

\* The count of calls that passed an eligible agent over: back to 0 when the
\* call checked it (the cursor stands right after it) or found it ineligible.
WaitsAfter(w, st, rec) ==
    [id \in TrackedIds |->
        LET i == FindAgentById(st, id)
        IN IF i = 0 \/ ~NeedsCheck(st.agents[i]) \/ (rec.checks > 0 /\ rec.cursor = i)
           THEN 0
           ELSE IF w[id] > Len(st.agents) THEN w[id] ELSE w[id] + 1]

\* App::visible_sessions: non-archived sessions, main pinned first.
VisibleSessionsAll(st) ==
    SelectSeq(st.sessions, LAMBDA s : s.is_main) \o SelectSeq(st.sessions, LAMBDA s : ~s.is_main)
VisibleSessions(st) ==
    SelectSeq(st.sessions, LAMBDA s : s.status # "Archived" /\ s.is_main)
    \o SelectSeq(st.sessions, LAMBDA s : s.status # "Archived" /\ ~s.is_main)

\* tui::run up to the event loop: load, ensure_main_session,
\* start_background_sessions, reconcile_tmux_state. The saves are best effort.
DashStart(cwOk, saveOk) ==
    LET st1 == EnsureMainSession(disk, nextId)
        bg  == StartBackground(SelectSeq(st1.sessions, LAMBDA s : s.status # "Archived"),
                               1, st1, windows, cwOk)
        rec == ReconcileTmuxState(bg.state, 0, panes)
    IN /\ ~dash.running
       /\ disk' = IF saveOk THEN rec.state ELSE disk
       /\ windows' = bg.windows
       /\ nextId' = IF Len(disk'.sessions) > Len(disk.sessions) THEN nextId + 1 ELSE nextId
       /\ dash' = [running |-> TRUE, input_mode |-> "Normal"]
       /\ last' = [NoOp EXCEPT !.op = "tui_start"]
       /\ UNCHANGED <<kind, repos, wts, panes, nextAgent, storeVars, provVars, appVars, muxVars, compatVars>>

\* handle_normal_key, Backspace on the i-th visible session.
DashKillKey(i) ==
    LET vis == VisibleSessions(disk)
    IN /\ dash.running /\ dash.input_mode = "Normal"
       /\ i \in 1..Len(vis)
       /\ IF vis[i].is_main
          THEN /\ last' = [NoOp EXCEPT !.op = "tui_backspace", !.target = vis[i].name,
                                       !.result = "UserError"]
               /\ UNCHANGED dash
          ELSE /\ last' = [NoOp EXCEPT !.op = "tui_backspace", !.target = vis[i].name]
               /\ dash' = [dash EXCEPT !.input_mode = "ConfirmKillSession"]
       /\ UNCHANGED <<kind, repos, disk, windows, wts, panes, nextId, nextAgent, storeVars, provVars, appVars, muxVars, compatVars>>

\* handle_confirm_kill_session: y runs kill::execute(name, force = true,
\* delete_branch = false); anything else cancels.
DashConfirmKill(i, yes, winOk, rmOk, saveOk) ==
    LET vis == VisibleSessions(disk)
    IN /\ dash.running /\ dash.input_mode = "ConfirmKillSession"
       /\ i \in 1..Len(vis)
       /\ dash' = [dash EXCEPT !.input_mode = "Normal"]
       /\ IF yes
          THEN KillExec(vis[i].name, TRUE, winOk, rmOk, saveOk, "tui_kill")
          ELSE /\ last' = [NoOp EXCEPT !.op = "tui"]
               /\ UNCHANGED <<disk, windows, wts>>
       /\ UNCHANGED <<kind, repos, panes, nextId, nextAgent, storeVars, provVars, appVars, muxVars, compatVars>>

\* q / Ctrl-C: leave the event loop.
DashQuit ==
    /\ dash.running
    /\ dash' = [running |-> FALSE, input_mode |-> "Normal"]
    /\ last' = [NoOp EXCEPT !.op = "tui"]
    /\ UNCHANGED <<kind, repos, disk, windows, wts, panes, nextId, nextAgent, storeVars, provVars, appVars, muxVars, compatVars>>

\* do_open_session on the i-th visible session: switch to its window; when
\* select_window fails, create the window, mark the first session of that
\* name Active and save (best effort).
DashOpen(i, cwOk, saveOk) ==
    LET vis  == VisibleSessions(disk)
        name == vis[i].name
        j    == FindSessionByName(disk, name)
    IN /\ dash.running /\ dash.input_mode = "Normal"
       /\ i \in 1..Len(vis)
       /\ IF name \in windows \/ ~cwOk
          THEN UNCHANGED <<disk, windows>>
          ELSE /\ windows' = windows \cup {name}
               /\ disk' = IF saveOk THEN [disk EXCEPT !.sessions[j].status = "Active"] ELSE disk
       /\ last' = [NoOp EXCEPT !.op = "tui_open", !.target = name]
       /\ UNCHANGED <<kind, repos, wts, panes, dash, nextId, nextAgent, storeVars, provVars, appVars, muxVars, compatVars>>

\* ---------------------------------------------------------------------------
\* The environment: the user closes a window or a pane, or deletes a directory
\* ---------------------------------------------------------------------------
ExtCloseWindow(w) ==
    /\ w \in windows
    /\ windows' = windows \ {w}
    /\ last' = [NoOp EXCEPT !.op = "env"]
    /\ UNCHANGED <<kind, repos, disk, wts, panes, dash, nextId, nextAgent, storeVars, provVars, appVars, muxVars, compatVars>>

ExtClosePane(pn) ==
    /\ pn \in panes
    /\ panes' = panes \ {pn}
    /\ last' = [NoOp EXCEPT !.op = "env"]
    /\ UNCHANGED <<kind, repos, disk, windows, wts, dash, nextId, nextAgent, storeVars, provVars, appVars, muxVars, compatVars>>

ExtRemoveDir(p) ==
    /\ p \in wts
    /\ wts' = AfterRemoval(wts, {p}, TRUE)
    /\ last' = [NoOp EXCEPT !.op = "env"]
    /\ UNCHANGED <<kind, repos, disk, windows, panes, dash, nextId, nextAgent, storeVars, provVars, appVars, muxVars, compatVars>>

Next ==
    \/ \E name \in Names, headless \in BOOLEAN :
         \E fail \in NewOutcomes(name),
            has_prompt \in (IF headless THEN BOOLEAN ELSE {FALSE}),
            S \in (IF kind = "SingleRepo" THEN {{}} ELSE SUBSET WsRepos) :
            NewCmd(name, headless, has_prompt, fail = "template", S, fail)
    \/ \E target \in Names, force \in BOOLEAN, delete_branch \in BOOLEAN :
         \E winOk \in KillOutcomes(target, force), rmOk \in KillOutcomes(target, force),
            saveOk \in KillOutcomes(target, force) :
            KillCmd(target, force, delete_branch, winOk, rmOk, saveOk)
    \/ \E all \in BOOLEAN, dry_run \in BOOLEAN :
         \E rmOk \in CleanupOutcomes(all, dry_run), saveOk \in CleanupOutcomes(all, dry_run),
            pruneOk \in CleanupOutcomes(all, dry_run) :
            CleanupCmd(all, dry_run, rmOk, saveOk, pruneOk)
    \/ \E listOk \in BOOLEAN, saveOk \in BOOLEAN : DoctorCmd(listOk, saveOk)
    \/ \E cwOk \in BOOLEAN, saveOk \in BOOLEAN : DashStart(cwOk, saveOk)
    \/ \E i \in 1..Len(VisibleSessions(disk)) : DashKillKey(i)
    \/ \E i \in 1..Len(VisibleSessions(disk)), yes \in BOOLEAN :
         \E winOk \in KillOutcomes(VisibleSessions(disk)[i].name, yes),
            rmOk \in KillOutcomes(VisibleSessions(disk)[i].name, yes),
            saveOk \in KillOutcomes(VisibleSessions(disk)[i].name, yes) :
            DashConfirmKill(i, yes, winOk, rmOk, saveOk)
    \/ DashQuit
    \/ \E w \in Names : ExtCloseWindow(w)
    \/ \E p \in wts : ExtRemoveDir(p)

Spec == InitSessions /\ [][Next]_vars

\* The status of a session over its life: created, repaired by doctor, restored
\* or opened by the dashboard, removed by kill or cleanup.
NextStatus ==
    \/ \E name \in Names : NewCmd(name, FALSE, FALSE, FALSE, {}, "none")
    \/ \E target \in Names : KillCmd(target, TRUE, FALSE, TRUE, TRUE, TRUE)
    \/ \E all \in BOOLEAN : CleanupCmd(all, FALSE, TRUE, TRUE, TRUE)
    \/ \E saveOk \in BOOLEAN : DoctorCmd(TRUE, saveOk)
    \/ \E cwOk \in BOOLEAN, saveOk \in BOOLEAN : DashStart(cwOk, saveOk)
    \/ \E i \in 1..Len(VisibleSessions(disk)), cwOk \in BOOLEAN, saveOk \in BOOLEAN :
         DashOpen(i, cwOk, saveOk)
    \/ DashQuit
    \/ \E w \in Names : ExtCloseWindow(w)
    \/ \E p \in wts : ExtRemoveDir(p)

SpecStatus == Init /\ [][NextStatus]_vars

\* Agents and the sessions they belong to: create, spawn, review, kill,
\* cleanup, and doctor pausing a session whose window was closed.
NextRefs ==
    \/ \E name \in Names : NewCmd(name, FALSE, FALSE, FALSE, {}, "none")
    \/ \E target \in Names \cup {""}, interactive \in BOOLEAN, fail \in SpawnFailPoints :
            SpawnCmd(target, interactive, fail)
    \/ \E fail \in {"none", "fetch", "save"} : ReviewCmd(fail)
    \/ \E target \in Names, force \in BOOLEAN :
         \E saveOk \in KillOutcomes(target, force) :
            KillCmd(target, force, FALSE, TRUE, TRUE, saveOk)
    \/ \E all \in BOOLEAN : CleanupCmd(all, FALSE, TRUE, TRUE, TRUE)
    \/ DoctorCmd(TRUE, TRUE)
    \/ \E w \in Names : ExtCloseWindow(w)

SpecRefs == InitSessions /\ [][NextRefs]_vars

\* Sessions with their agents: create, spawn, kill.
NextAgents ==
    \/ \E name \in Names, headless \in BOOLEAN :
         \E fail \in NewOutcomes(name),
            has_prompt \in (IF headless THEN BOOLEAN ELSE {FALSE}),
            S \in (IF kind = "SingleRepo" THEN {{}} ELSE SUBSET WsRepos) :
            NewCmd(name, headless, has_prompt, fail = "template", S, fail)
    \/ \E target \in Names \cup {""}, interactive \in BOOLEAN, fail \in SpawnFailPoints :
            SpawnCmd(target, interactive, fail)
    \/ \E target \in Names, force \in BOOLEAN, delete_branch \in BOOLEAN :
         \E winOk \in KillOutcomes(target, force), rmOk \in KillOutcomes(target, force),
            saveOk \in KillOutcomes(target, force) :
            KillCmd(target, force, delete_branch, winOk, rmOk, saveOk)
    \/ \E pn \in 1..MaxAgents : ExtClosePane(pn)

SpecAgents == InitSessions /\ [][NextAgents]_vars

\* ---------------------------------------------------------------------------
\* vibe init and vibe refresh-repos (commands/init.rs, commands/refresh_repos.rs)
\* ---------------------------------------------------------------------------
\* The document `vibe init` writes: SingleRepo with no repos inside a git
\* repository, else MultiRepo with the repositories discover_repos found, of
\* which there is at least one (none: NoReposFound, nothing is written).
InitWorkspace ==
    /\ InitStore /\ InitProv /\ InitApp /\ InitMux /\ InitCompat
    /\ \E found \in SUBSET Repos :
          \/ kind = "SingleRepo" /\ repos = {} /\ found = {}
          \/ kind = "MultiRepo" /\ repos = found /\ found # {}
    /\ disk = [sessions |-> <<>>, agents |-> <<>>]
    /\ windows = {}
    /\ wts = {}
    /\ panes = {}
    /\ dash = [running |-> FALSE, input_mode |-> "Normal"]
    /\ nextId = 1
    /\ nextAgent = 1
    /\ last = NoOp

\* refresh_repos::execute: nothing for a workspace that is not MultiRepo or
\* when the discovered names equal the tracked ones; else the tracked list is
\* replaced by the discovered one and saved. discOk, saveOk: whether
\* discover_repos and the save succeed.
RefreshReposCmd(found, discOk, saveOk) ==
    LET changed == kind = "MultiRepo" /\ discOk /\ found # repos
    IN /\ repos' = IF changed /\ saveOk THEN found ELSE repos
       /\ last' = [NoOp EXCEPT !.op = "refresh_repos",
                                !.result = IF kind # "MultiRepo" THEN "Ok"
                                           ELSE IF ~discOk THEN "GitErr"
                                           ELSE IF changed /\ ~saveOk THEN "IoErr"
                                           ELSE "Ok"]
       /\ UNCHANGED <<kind, disk, windows, wts, panes, dash, nextId, nextAgent,
                      storeVars, provVars, appVars, muxVars, compatVars>>

NextRepos ==
    \/ \E found \in SUBSET Repos, discOk \in BOOLEAN, saveOk \in BOOLEAN :
         RefreshReposCmd(found, discOk, saveOk)
    \/ \E name \in Names, headless \in BOOLEAN :
         \E fail \in NewOutcomes(name),
            has_prompt \in (IF headless THEN BOOLEAN ELSE {FALSE}),
            S \in (IF kind = "SingleRepo" THEN {{}} ELSE SUBSET repos) :
            NewCmd(name, headless, has_prompt, fail = "template", S, fail)

SpecRepos == InitWorkspace /\ [][NextRepos]_vars

\* ---------------------------------------------------------------------------
\* The dashboard's event loop and the agents it tracks (tui/mod.rs run,
\* tui/app.rs, infra/watcher.rs)
\* ---------------------------------------------------------------------------
\* The dashboard has been started in a workspace that holds session "a":
\* `vibe new a` succeeded, then the dashboard inserted main, found both
\* windows and loaded the state.
DashSessions ==
    <<[SessionNew(2, "main", RootPath) EXCEPT !.is_main = TRUE, !.status = "Active"],
      [SessionNew(1, "a", SessionDir(1)) EXCEPT !.status = "Active"]>>

InitDash ==
    /\ InitStore /\ InitProv /\ InitMux /\ InitCompat
    /\ kind = "SingleRepo"
    /\ repos = {}
    /\ disk = [sessions |-> DashSessions, agents |-> <<>>]
    /\ windows = {"main", "a"}
    /\ wts = {SessionDir(1)}
    /\ panes = {}
    /\ dash = [running |-> TRUE, input_mode |-> "Normal"]
    /\ nextId = 3
    /\ nextAgent = 1
    /\ last = [NoOp EXCEPT !.op = "tui_start"]
    /\ app = disk
    /\ reconcile_next_agent = 0
    /\ events = <<>>
    /\ outputs = {}
    /\ waits = [id \in TrackedIds |-> 0]

\* The watcher callback: a Create or Modify event on <agents>/<id>/output.json
\* whose content parses queues AgentCompleted for that id. The file is written
\* by the detached task of a headless agent when its run returns; the callback
\* looks at the path and the content only, so a write by anything else (the
\* user, a process in an agent's pane) queues the same event.
\* `mpsc::unbounded_channel()`: the channel the dashboard creates has no
\* capacity, it is never full.
ChannelFull(q) == FALSE

\* `let _ = tx.try_send(event)`: queue the event unless the channel is full.
TrySend(q, ev) == IF ChannelFull(q) THEN q ELSE Append(q, ev)

\* seen: whether a watcher is running and notified; `ForgeWatcher::start(..).ok()`
\* drops a failure to start it, and the loop then runs without a watcher.
OutputWritten(id, seen) ==
    /\ dash.running
    /\ id < nextAgent
    /\ Len(events) < StormSize
    /\ outputs' = outputs \cup {id}
    /\ events' = IF seen THEN TrySend(events, id) ELSE events
    /\ last' = [NoOp EXCEPT !.op = "env"]
    /\ UNCHANGED <<kind, repos, disk, windows, wts, panes, dash, nextId, nextAgent,
                   app, reconcile_next_agent, waits, storeVars, provVars, muxVars, compatVars>>

\* `if let Some(agent) = find_agent_by_id_mut(id) { agent.status = Completed }`
MarkCompleted(st, id) ==
    LET i == FindAgentById(st, id)
    IN IF i = 0 THEN st ELSE [st EXCEPT !.agents[i].status = "Completed"]

\* The loop takes AgentCompleted from the channel, marks the agent and saves
\* the state it holds; a save error is logged.
DashAgentCompleted(id, saveOk) ==
    /\ dash.running
    /\ events # <<>>
    /\ id = Head(events)
    /\ events' = Tail(events)
    /\ app' = MarkCompleted(app, id)
    /\ disk' = IF saveOk THEN app' ELSE disk
    /\ last' = [NoOp EXCEPT !.op = "tui_agent_completed"]
    /\ UNCHANGED <<kind, repos, windows, wts, panes, dash, nextId, nextAgent,
                   reconcile_next_agent, outputs, waits, storeVars, provVars, muxVars, compatVars>>

\* App::refresh_state: replace the held state by the loaded one; a load error
\* leaves it alone.
RefreshState(held, loadOk) == IF loadOk THEN disk ELSE held

DashRefresh(loadOk) ==
    /\ dash.running
    /\ app' = RefreshState(app, loadOk)
    /\ last' = [NoOp EXCEPT !.op = "tui_refresh"]
    /\ UNCHANGED <<kind, repos, disk, windows, wts, panes, dash, nextId, nextAgent,
                   reconcile_next_agent, events, outputs, waits, storeVars, provVars, muxVars, compatVars>>

\* The periodic part of a tick: refresh_state, then reconcile_tmux_state,
\* which saves when it marked an agent; a save error is logged.
DashTick(loadOk, saveOk) ==
    LET st  == RefreshState(app, loadOk)
        rec == ReconcileTmuxState(st, reconcile_next_agent, panes)
    IN /\ dash.running
       /\ app' = rec.state
       /\ reconcile_next_agent' = rec.cursor
       /\ disk' = IF rec.state # st /\ saveOk THEN rec.state ELSE disk
       /\ waits' = WaitsAfter(waits, st, rec)
       /\ last' = [NoOp EXCEPT !.op = "tui_tick", !.held = st, !.read = rec.read,
                                !.from = reconcile_next_agent,
                                !.checks = rec.checks,
                                !.saves = IF rec.state # st THEN 1 ELSE 0,
                                !.result = IF rec.state # st /\ ~saveOk THEN "IoErr" ELSE "Ok"]
       /\ UNCHANGED <<kind, repos, windows, wts, panes, dash, nextId, nextAgent,
                      events, outputs, storeVars, provVars, muxVars, compatVars>>

\* reconcile_tmux_state_full on the state the dashboard holds; it saves once
\* when it marked an agent, and a save error is logged.
DashSweep(saveOk) ==
    LET rec == ReconcileTmuxStateFull(app, panes)
    IN /\ dash.running
       /\ app' = rec.state
       /\ disk' = IF rec.needs_save /\ saveOk THEN rec.state ELSE disk
       /\ last' = [NoOp EXCEPT !.op = "tui_sweep",
                                !.agents = Cardinality({i \in 1..Len(app.agents) :
                                                           rec.state.agents[i] # app.agents[i]}),
                                !.saves = IF rec.needs_save THEN 1 ELSE 0,
                                !.result = IF rec.needs_save /\ ~saveOk THEN "IoErr" ELSE "Ok"]
       /\ UNCHANGED <<kind, repos, windows, wts, panes, dash, nextId, nextAgent,
                      reconcile_next_agent, events, outputs, waits, storeVars, provVars, muxVars, compatVars>>

NextDash ==
    \/ \E target \in Names \cup {""}, interactive \in BOOLEAN, fail \in SpawnFailPoints :
            SpawnCmd(target, interactive, fail)
    \/ \E pn \in 1..MaxAgents : ExtClosePane(pn)
    \/ \E id \in 1..MaxAgents, seen \in BOOLEAN : OutputWritten(id, seen)
    \/ \E id \in 1..MaxAgents, saveOk \in BOOLEAN : DashAgentCompleted(id, saveOk)
    \/ \E loadOk \in BOOLEAN : DashRefresh(loadOk)
    \/ \E loadOk \in BOOLEAN, saveOk \in BOOLEAN : DashTick(loadOk, saveOk)

SpecDash == InitDash /\ [][NextDash]_vars

\* `app.state.agents.retain(|a| a.id != agent_id)`
RemoveAgent(st, id) == [st EXCEPT !.agents = SelectSeq(@, LAMBDA a : a.id # id)]

\* do_remove_or_kill_agent, Backspace on the agent `id` of the held state: a
\* finished agent is removed at once and the held state saved (best effort);
\* a live one opens the confirmation.
DashAgentBackspace(id, saveOk) ==
    LET i == FindAgentById(app, id)
    IN /\ dash.running /\ dash.input_mode = "Normal"
       /\ i # 0
       /\ IF IsDone(app.agents[i])
          THEN /\ app' = RemoveAgent(app, id)
               /\ disk' = IF saveOk THEN app' ELSE disk
               /\ UNCHANGED dash
          ELSE /\ dash' = [dash EXCEPT !.input_mode = "ConfirmKillAgent"]
               /\ UNCHANGED <<app, disk>>
       /\ last' = [NoOp EXCEPT !.op = "tui_backspace_agent"]
       /\ UNCHANGED <<kind, repos, windows, wts, panes, nextId, nextAgent,
                      reconcile_next_agent, events, outputs, waits, storeVars, provVars, muxVars, compatVars>>

\* handle_confirm_kill_agent: Enter kills the agent's pane, removes the agent
\* from the held state and saves it (best effort); Esc cancels.
DashConfirmKillAgent(id, enter, saveOk) ==
    LET i == FindAgentById(app, id)
    IN /\ dash.running /\ dash.input_mode = "ConfirmKillAgent"
       /\ i # 0
       /\ dash' = [dash EXCEPT !.input_mode = "Normal"]
       /\ IF enter
          THEN /\ panes' = panes \ {app.agents[i].tmux_pane}
               /\ app' = RemoveAgent(app, id)
               /\ disk' = IF saveOk THEN app' ELSE disk
          ELSE UNCHANGED <<panes, app, disk>>
       /\ last' = [NoOp EXCEPT !.op = "tui_kill_agent"]
       /\ UNCHANGED <<kind, repos, windows, wts, nextId, nextAgent,
                      reconcile_next_agent, events, outputs, waits, storeVars, provVars, muxVars, compatVars>>

\* The dashboard with the removal of agents from its agent list.
NextDashAgents ==
    \/ NextDash
    \/ \E id \in 1..MaxAgents, saveOk \in BOOLEAN : DashAgentBackspace(id, saveOk)
    \/ \E id \in 1..MaxAgents, enter \in BOOLEAN, saveOk \in BOOLEAN :
         DashConfirmKillAgent(id, enter, saveOk)

SpecDashAgents == InitDash /\ [][NextDashAgents]_vars

\* ---------------------------------------------------------------------------
\* Reconciliation over a list of agents (tui/app.rs: reconcile_tmux_state,
\* reconcile_tmux_state_full, refresh_state)
\* ---------------------------------------------------------------------------
\* The agents a persisted document can hold after spawns, pane losses and
\* completions: an interactive agent running in pane i, a headless agent
\* running, an agent marked Failed (handle cleared), an interactive agent
\* marked Completed by the watcher handler (handle kept).
AgentShapes == {"interactive", "headless", "failed", "completed"}

StoredAgent(i, parent, shape) ==
    [AgentNew(i, parent) EXCEPT
        !.mode = IF shape = "headless" THEN "Headless" ELSE "Interactive",
        !.status = IF shape = "failed" THEN "Failed"
                   ELSE IF shape = "completed" THEN "Completed" ELSE "Running",
        !.tmux_pane = IF shape \in {"interactive", "completed"} THEN i ELSE 0]

\* The dashboard runs over main and session a; the document holds NumStored
\* agents, all of session a or the first of main, of which the dashboard has
\* loaded the first k (the others were spawned since its last refresh); any
\* of their panes may be gone already.
InitReconcile ==
    /\ InitStore /\ InitProv /\ InitMux /\ InitCompat
    /\ kind = "SingleRepo"
    /\ repos = {}
    /\ \E shape \in [1..NumStored -> AgentShapes], m \in {0, 1} :
          disk = [sessions |-> DashSessions,
                  agents   |-> [i \in 1..NumStored |->
                                  StoredAgent(i, IF i <= m THEN 2 ELSE 1, shape[i])]]
    /\ windows = {"main", "a"}
    /\ wts = {SessionDir(1)}
    /\ panes \in SUBSET {disk.agents[i].tmux_pane : i \in 1..NumStored}
    /\ 0 \notin panes
    /\ dash = [running |-> TRUE, input_mode |-> "Normal"]
    /\ nextId = 3
    /\ nextAgent = NumStored + 1
    /\ last = [NoOp EXCEPT !.op = "tui_start"]
    /\ \E k \in 0..NumStored : app = [disk EXCEPT !.agents = SubSeq(disk.agents, 1, k)]
    /\ reconcile_next_agent = 0
    /\ events = <<>>
    /\ outputs = {}
    /\ waits = [id \in TrackedIds |-> 0]

\* Ticks and refreshes of the dashboard, the full sweep, panes closing, and
\* `vibe kill` run from a shell, which shortens the persisted agent list.
NextReconcile ==
    \/ \E pn \in 1..NumStored : ExtClosePane(pn)
    \/ \E loadOk \in BOOLEAN, saveOk \in BOOLEAN : DashTick(loadOk, saveOk)
    \/ \E loadOk \in BOOLEAN : DashRefresh(loadOk)
    \/ \E saveOk \in BOOLEAN : DashSweep(saveOk)
    \/ \E saveOk \in KillOutcomes("a", TRUE) : KillCmd("a", TRUE, FALSE, TRUE, TRUE, saveOk)

SpecReconcile == InitReconcile /\ [][NextReconcile]_vars

\* The loop's tick fires whenever refresh_interval has elapsed (tui/mod.rs,
\* the `if last_tick.elapsed() >= tick_rate` block): ticks keep coming.
Tick == \E loadOk \in BOOLEAN, saveOk \in BOOLEAN : DashTick(loadOk, saveOk)

\* The agent list stays as it is: ticks, refreshes and panes closing only.
NextSteady ==
    \/ \E pn \in 1..NumStored : ExtClosePane(pn)
    \/ Tick
    \/ \E loadOk \in BOOLEAN : DashRefresh(loadOk)

SpecReconcileLive == InitReconcile /\ [][NextSteady]_vars /\ WF_vars(Tick)

\* Headless agents finishing: output files written, seen by the watcher or
\* not, the loop draining the channel, ticks and refreshes.
Drain == \E id \in 1..NumStored, saveOk \in BOOLEAN : DashAgentCompleted(id, saveOk)

NextBackstop ==
    \/ \E id \in 1..NumStored, seen \in BOOLEAN : OutputWritten(id, seen)
    \/ Drain
    \/ Tick
    \/ \E loadOk \in BOOLEAN : DashRefresh(loadOk)

\* All agents headless and loaded, none with a pane.
InitBackstop ==
    /\ InitReconcile
    /\ \A i \in 1..NumStored : disk.agents[i].mode = "Headless" /\ disk.agents[i].parent_session = 1
    /\ app = disk

SpecBackstop == InitBackstop /\ [][NextBackstop]_vars /\ WF_vars(Tick) /\ WF_vars(Drain)

\* A shell command and the running dashboard on the same workspace: each loads
\* the document, changes its copy and saves all of it. `vibe kill a` runs from
\* a shell between two refreshes of the dashboard.
NextRace ==
    \/ \E id \in 1..NumStored, seen \in BOOLEAN : OutputWritten(id, seen)
    \/ Drain
    \/ Tick
    \/ \E loadOk \in BOOLEAN : DashRefresh(loadOk)
    \/ \E saveOk \in KillOutcomes("a", TRUE) : KillCmd("a", TRUE, FALSE, TRUE, TRUE, saveOk)

SpecRace == InitBackstop /\ [][NextRace]_vars

\* ---------------------------------------------------------------------------
\* Calls to tmux (infra/tmux.rs: run_tmux, run_tmux_output and their callers)
\* ---------------------------------------------------------------------------
\* What one invocation of the tmux subprocess can answer: exit status 0; a
\* non-zero status with a stderr that contains "no server running", "session
\* not found", "server exited" or "lost server", or none of these (bad target,
\* syntax error, duplicate session); or the subprocess could not be run, with
\* an io::Error of a kind the code retries or of another kind.
Answers == {"success", "no_server", "session_not_found", "server_exited", "other_failure",
            "io_transient", "io_other"}

IsIoError(a) == a \in {"io_transient", "io_other"}

\* is_transient_io_error: ConnectionRefused, ConnectionReset, BrokenPipe,
\* TimedOut, Interrupted
IsTransientIoError(a) == a = "io_transient"

\* is_transient_tmux_error: "server exited", "lost server", "no server running"
IsTransientTmuxError(a) == a \in {"server_exited", "no_server"}

\* run_tmux: `stderr.contains("no server running") || stderr.contains("session not found")`
IsBenign(a) == a \in {"no_server", "session_not_found"}

MaxAttempts == 3       \* for attempt in 0..3u32
RetryBelow == 2        \* attempt < 2 && is_transient_...

\* The body of the loop for one answer: what the call returns, or "retry".
AttemptResult(fn, attempt, a) ==
    IF IsIoError(a)
    THEN IF attempt < RetryBelow /\ IsTransientIoError(a) THEN "retry" ELSE "Io"
    ELSE IF a = "success" THEN "Ok"
    ELSE IF fn = "run_tmux" /\ IsBenign(a) THEN "Ok"
    ELSE IF attempt < RetryBelow /\ IsTransientTmuxError(a) THEN "retry"
    ELSE "Tmux"

\* One iteration: invoke the subprocess, then return or go round again; the
\* loop ends after MaxAttempts iterations with the Tmux error.
RunAttemptNoLimit(c, a) ==
    LET r  == AttemptResult(c.fn, 0, a)
        c1 == [c EXCEPT !.n = @ + 1, !.outs = Append(@, a)]
    IN IF r # "retry" \/ c.n > MaxAttempts THEN [c1 EXCEPT !.pc = "done", !.ret = r]
       ELSE [c1 EXCEPT !.attempt = @ + 1]
RunAttempt(c, a) ==
    LET r  == AttemptResult(c.fn, c.attempt, a)
        c1 == [c EXCEPT !.n = @ + 1, !.outs = Append(@, a)]
    IN IF r # "retry" THEN [c1 EXCEPT !.pc = "done", !.ret = r]
       ELSE IF c.attempt + 1 < MaxAttempts THEN [c1 EXCEPT !.attempt = @ + 1]
       ELSE [c1 EXCEPT !.attempt = @ + 1, !.pc = "done", !.ret = "Tmux"]

\* Which function a caller goes through.
FnOf(who) == IF who \in {"window_exists", "create_window"} THEN "run_tmux_output" ELSE "run_tmux"

\* What tmux can answer to the caller's command. new-session starts the server
\* when none runs and names no target, and it succeeds only while no session
\* has the name.
AnswersFor(who) ==
    IF who = "ensure_session"
    THEN (Answers \ {"no_server", "session_not_found"}) \ (IF tsess > 0 THEN {"success"} ELSE {})
    ELSE Answers

Callers == {"kill_window", "send_keys", "create_window", "window_exists", "pane_exists"}

\* A caller enters run_tmux or run_tmux_output.
CallStart(who) ==
    /\ call.pc # "loop"
    /\ call' = [IdleCall EXCEPT !.fn = FnOf(who), !.who = who, !.pc = "loop"]
    /\ UNCHANGED <<bindings, navlock, inst, tsess, ens, storeVars, provVars, facadeVars, appVars, compatVars>>

\* One invocation of the subprocess returns and the loop body handles it.
\* A new-session that succeeds creates the session; when the call was made by
\* ensure_session, its result is what ensure_session returns.
TmuxAnswer(a) ==
    /\ call.pc = "loop"
    /\ a \in AnswersFor(call.who)
    /\ call' = RunAttempt(call, a)
    /\ IF call.who = "ensure_session"
       THEN /\ tsess' = IF a = "success" THEN tsess + 1 ELSE tsess
            /\ ens' = IF call'.pc = "done"
                      THEN [ens EXCEPT !.pc = "returned", !.ret = call'.ret, !.created = @ + 1]
                      ELSE [ens EXCEPT !.created = @ + 1]
       ELSE UNCHANGED <<tsess, ens>>
    /\ UNCHANGED <<bindings, navlock, inst, storeVars, provVars, facadeVars, appVars, compatVars>>

\* window_exists / pane_exists: `.is_ok()` of the call.
ProbeResult(c) == c.ret = "Ok"

\* session_exists: has-session run once, not through run_tmux; an io::Error
\* is propagated, any exit status other than 0 means absent.
SessionExistsNever(probe) == IF probe = "io" THEN "Io" ELSE "absent"
SessionExists(probe) == IF probe = "io" THEN "Io" ELSE IF tsess > 0 THEN "found" ELSE "absent"

\* ensure_session: return at once when the session exists, else create it
\* through run_tmux.
EnsureSession(probe) ==
    LET e  == SessionExists(probe)
        e0 == [ens EXCEPT !.k = @ + 1, !.probe = probe, !.created = 0, !.prev = ens.ret]
    IN /\ call.pc # "loop"
       /\ ens.pc # "creating"
       /\ ens.k < MaxEnsure
       /\ IF e = "Io" THEN /\ ens' = [e0 EXCEPT !.pc = "returned", !.ret = "Io"]
                           /\ UNCHANGED call
          ELSE IF e = "found" THEN /\ ens' = [e0 EXCEPT !.pc = "returned", !.ret = "Ok"]
                                   /\ UNCHANGED call
          ELSE /\ ens' = [e0 EXCEPT !.pc = "creating", !.ret = "none"]
               /\ call' = [IdleCall EXCEPT !.fn = "run_tmux", !.who = "ensure_session", !.pc = "loop"]
       /\ UNCHANGED <<bindings, navlock, inst, tsess, storeVars, provVars, facadeVars, appVars, compatVars>>

NextTmux ==
    \/ \E who \in Callers : CallStart(who)
    \/ \E a \in Answers : TmuxAnswer(a)
    \/ \E probe \in {"ran", "io"} : EnsureSession(probe)

SpecTmux == Init /\ [][NextTmux]_vars

\* Every invocation of the subprocess returns: Command::output resolves.
SpecTmuxLive == SpecTmux /\ WF_vars(\E a \in Answers : TmuxAnswer(a))

\* ---------------------------------------------------------------------------
\* Nav bindings shared by the dashboard instances of one tmux server
\* (infra/tmux.rs: setup_nav_bindings, cleanup_nav_bindings, write_nav_lock,
\* verify_nav_bindings; tui/mod.rs: run)
\* ---------------------------------------------------------------------------
Insts == 1..NumInst        \* an instance is named by its pid

\* The two user-keys options and the four key bindings of the batch.
NavItems == {"user-keys[0]", "user-keys[1]", "User0", "User1", "d", "o"}

\* `tmux source-file <tmp>`: the server runs the six lines of the file as one
\* command sequence, without taking another client's command in between.
SourceFileFirstLine(b, batch) ==
    IF batch = "setup" THEN b \cup {"user-keys[0]"} ELSE b \ {"User0"}
SourceFile(b, batch) ==
    IF batch = "setup" THEN b \cup NavItems ELSE b \ NavItems

\* verify_nav_bindings: both options and the User0 / User1 bindings are there.
VerifyNavBindings(b) == {"user-keys[0]", "user-keys[1]", "User0", "User1"} \subseteq b

\* cleanup_nav_bindings: go on unless the lock file holds another pid.
LockAllowsCleanupOwnOnly(lock, pid) == lock = pid
LockAllowsCleanup(lock, pid) == lock = 0 \/ lock = pid

\* is_nav_lock_stale: the lock file names a process that is not alive.
IsNavLockStale(lock) == lock # 0 /\ inst[lock].pc = "off"

\* setup_nav_bindings, first step: write the batch to vibe-nav-<pid>.conf; an
\* error returns before tmux is called. The caller logs it and runs on.
SetupBegin(p, wrOk) ==
    inst' = [inst EXCEPT ![p] = [@ EXCEPT !.pc = IF wrOk THEN "setup_source" ELSE "run",
                                             !.has = FALSE]]

\* The dashboard starts (tui/mod.rs run) and sets the bindings up.
NavStart(p, wrOk) ==
    /\ inst[p].pc = "off"
    /\ SetupBegin(p, wrOk)
    /\ UNCHANGED <<bindings, navlock, call, tsess, ens, storeVars, provVars, facadeVars, appVars, compatVars>>

\* The periodic check of a running dashboard finds the bindings missing and
\* sets them up again.
NavVerify(p, wrOk) ==
    /\ inst[p].pc = "run"
    /\ ~VerifyNavBindings(bindings)
    /\ SetupBegin(p, wrOk)
    /\ UNCHANGED <<bindings, navlock, call, tsess, ens, storeVars, provVars, facadeVars, appVars, compatVars>>

\* setup_nav_bindings: source the batch; an error is returned to the caller.
NavSetupSource(p, ok) ==
    /\ inst[p].pc = "setup_source"
    /\ bindings' = IF ok THEN SourceFile(bindings, "setup") ELSE bindings
    /\ inst' = [inst EXCEPT ![p].pc = IF ok THEN "setup_lock" ELSE "run"]
    /\ UNCHANGED <<navlock, call, tsess, ens, storeVars, provVars, facadeVars, appVars, compatVars>>

\* write_nav_lock: write the own pid; a write error is logged.
NavWriteLock(p, wrOk) ==
    /\ inst[p].pc = "setup_lock"
    /\ navlock' = IF wrOk THEN p ELSE navlock
    /\ inst' = [inst EXCEPT ![p] = [@ EXCEPT !.pc = "run", !.has = TRUE]]
    /\ UNCHANGED <<bindings, call, tsess, ens, storeVars, provVars, facadeVars, appVars, compatVars>>

\* The dashboard leaves its loop (quit key, SIGTERM, SIGHUP) and
\* cleanup_nav_bindings reads the lock file.
NavQuit(p) ==
    /\ inst[p].pc = "run"
    /\ inst' = [inst EXCEPT ![p] = IF LockAllowsCleanup(navlock, p)
                                   THEN [@ EXCEPT !.pc = "cleanup_rmlock"]
                                   ELSE [pc |-> "off", has |-> FALSE, exited |-> TRUE]]
    /\ UNCHANGED <<bindings, navlock, call, tsess, ens, storeVars, provVars, facadeVars, appVars, compatVars>>

\* cleanup_nav_bindings: remove the lock file.
NavRemoveLock(p) ==
    /\ inst[p].pc = "cleanup_rmlock"
    /\ navlock' = 0
    /\ inst' = [inst EXCEPT ![p].pc = "cleanup_source"]
    /\ UNCHANGED <<bindings, call, tsess, ens, storeVars, provVars, facadeVars, appVars, compatVars>>

\* cleanup_nav_bindings: source the batch of unbinds; its result is dropped.
NavCleanupSource(p, ok) ==
    /\ inst[p].pc = "cleanup_source"
    /\ bindings' = IF ok THEN SourceFile(bindings, "cleanup") ELSE bindings
    /\ inst' = [inst EXCEPT ![p] = [pc |-> "off", has |-> FALSE, exited |-> TRUE]]
    /\ UNCHANGED <<navlock, call, tsess, ens, storeVars, provVars, facadeVars, appVars, compatVars>>

NextNav ==
    \/ \E p \in Insts, wrOk \in BOOLEAN : NavStart(p, wrOk)
    \/ \E p \in Insts, wrOk \in BOOLEAN : NavVerify(p, wrOk)
    \/ \E p \in Insts, ok \in BOOLEAN : NavSetupSource(p, ok)
    \/ \E p \in Insts, wrOk \in BOOLEAN : NavWriteLock(p, wrOk)
    \/ \E p \in Insts : NavQuit(p)
    \/ \E p \in Insts : NavRemoveLock(p)
    \/ \E p \in Insts, ok \in BOOLEAN : NavCleanupSource(p, ok)

SpecNav == Init /\ [][NextNav]_vars

\* The same instances on a server that accepts both batches; writing the batch
\* file or the lock file may still fail.
NextNavOk ==
    \/ \E p \in Insts, wrOk \in BOOLEAN : NavStart(p, wrOk)
    \/ \E p \in Insts, wrOk \in BOOLEAN : NavVerify(p, wrOk)
    \/ \E p \in Insts : NavSetupSource(p, TRUE)
    \/ \E p \in Insts, wrOk \in BOOLEAN : NavWriteLock(p, wrOk)
    \/ \E p \in Insts : NavQuit(p)
    \/ \E p \in Insts : NavRemoveLock(p)
    \/ \E p \in Insts : NavCleanupSource(p, TRUE)

SpecNavOk == Init /\ [][NextNavOk]_vars

\* The process is killed by a signal it cannot catch: no teardown runs.
NavKill(p) ==
    /\ inst[p].pc # "off"
    /\ inst' = [inst EXCEPT ![p] = [@ EXCEPT !.pc = "off", !.has = FALSE]]
    /\ UNCHANGED <<bindings, navlock, call, tsess, ens, storeVars, provVars, facadeVars, appVars, compatVars>>

\* Something outside the dashboards removes nav items from the server: the
\* user's configuration is reloaded, a key is unbound by hand, the server is
\* restarted.
LostSets == {NavItems, {"user-keys[0]"}, {"User1"}, {"d"}}

ExtLose(S) ==
    /\ \E p \in Insts : inst[p].pc = "run"
    /\ bindings \cap S # {}
    /\ bindings' = bindings \ S
    /\ UNCHANGED <<navlock, inst, call, tsess, ens, storeVars, provVars, facadeVars, appVars, compatVars>>

NextNavLive ==
    \/ NextNav
    \/ \E p \in Insts : NavKill(p)
    \/ \E S \in LostSets : ExtLose(S)

\* The event loop of a running dashboard ticks on (tui/mod.rs run), so its
\* check runs again and again; the server does not refuse the batch for ever
\* and the lock file does not stay unwritable for ever.
NavFair(p) ==
    /\ WF_vars(NavVerify(p, TRUE))
    /\ SF_vars(NavSetupSource(p, TRUE))
    /\ SF_vars(NavWriteLock(p, TRUE))

SpecNavLive == Init /\ [][NextNavLive]_vars /\ \A p \in Insts : NavFair(p)

\* ---------------------------------------------------------------------------
\* Properties of the session life cycle
\* ---------------------------------------------------------------------------
\* The session a name resolves to in the state an operation loads.
Resolved(name) == disk.sessions[FindSessionByName(disk, name)]

\* C3: killing the main session (is_main, named "main") fails with a user
\* error for every force / delete_branch, from the command line and from the
\* dashboard, and leaves persisted state, windows and working copies as they were.
C3_KillMainRefused ==
    [][ (/\ last'.op \in {"kill", "tui_kill"}
         /\ last'.target = "main"
         /\ HasMain(disk))
        => (/\ last'.result = "UserError"
            /\ UNCHANGED <<disk, windows, wts>>) ]_vars

C3_Witness ==
    /\ last.op = "kill" /\ last.target = "main" /\ last.force
    /\ last.result = "UserError"
    /\ HasMain(disk)
    /\ \E s \in SessionSet(disk) : ~s.is_main

\* C4: no operation invokes a working-copy removal on the path of the session
\* whose is_main flag is set.
C4_MainPathNeverRemoved ==
    [][ \A s \in SessionSet(disk) : s.is_main => s.worktree_path \notin last'.removed ]_vars

C4_Witness ==
    /\ last.op \in {"kill", "cleanup", "tui_kill"}
    /\ last.removed # {}
    /\ HasMain(disk)

\* C5: when a forced kill of an existing non-main session returns success, the
\* session and every agent whose parent it is are gone from the persisted
\* state, whatever became of its window and its working copy.
C5_ForcedKillForgets ==
    [][ (/\ last'.op = "kill" /\ last'.force /\ last'.result = "Ok"
         /\ FindSessionByName(disk, last'.target) # 0
         /\ ~Resolved(last'.target).is_main)
        => (/\ \A s \in SessionSet(disk') : s.id # Resolved(last'.target).id
            /\ \A a \in AgentSet(disk') : a.parent_session # Resolved(last'.target).id) ]_vars

\* A forced kill that succeeded although the window survived and the working
\* copy could not be removed, of a session that had an agent.
C5_Witness ==
    /\ last.op = "kill" /\ last.force /\ last.result = "Ok"
    /\ last.agents > 0
    /\ last.target \in windows
    /\ last.removed # {} /\ last.removed \subseteq wts
    /\ FindSessionByName(disk, last.target) = 0

\* C6 as stated: kill with force = false on any session whose status is
\* Active returns without error and changes nothing.
C6_UnforcedKillOfActiveIsNoOp ==
    [][ (/\ last'.op = "kill" /\ ~last'.force
         /\ FindSessionByName(disk, last'.target) # 0
         /\ Resolved(last'.target).status = "Active")
        => (/\ last'.result = "Ok"
            /\ UNCHANGED <<disk, windows, wts>>) ]_vars

\* C6 amended: kill with force = false on a non-main session whose status is
\* Active returns without error; the session stays Active and persisted state,
\* windows and working copies are unchanged.
C6_UnforcedKillOfActiveNonMainIsNoOp ==
    [][ (/\ last'.op = "kill" /\ ~last'.force
         /\ FindSessionByName(disk, last'.target) # 0
         /\ Resolved(last'.target).status = "Active"
         /\ ~Resolved(last'.target).is_main)
        => (/\ last'.result = "Ok"
            /\ UNCHANGED <<disk, windows, wts>>) ]_vars

C6_Witness ==
    /\ last.op = "kill" /\ ~last.force /\ last.result = "Ok"
    /\ FindSessionByName(disk, last.target) # 0
    /\ Resolved(last.target).status = "Active"
    /\ ~Resolved(last.target).is_main
    /\ last.target \in windows
    /\ Resolved(last.target).worktree_path \in wts

\* C7: create-session with a name some stored session already has is rejected
\* with a user error, creates no working copy and no window, and leaves the
\* persisted state unchanged.
C7_DuplicateNameRejected ==
    [][ (/\ last'.op = "new"
         /\ \E s \in SessionSet(disk) : s.name = last'.target)
        => (/\ last'.result = "UserError"
            /\ UNCHANGED <<disk, windows, wts>>) ]_vars

C7_Witness ==
    /\ last.op = "new" /\ last.result = "UserError"
    /\ \E s \in SessionSet(disk) : s.name = last.target /\ s.status = "Archived"

\* C8: no two non-archived sessions of the persisted state have the same name.
C8_UniqueNamesAmongNonArchived ==
    \A i, j \in 1..Len(disk.sessions) :
        (/\ i # j
         /\ disk.sessions[i].status # "Archived"
         /\ disk.sessions[j].status # "Archived")
        => disk.sessions[i].name # disk.sessions[j].name

\* C9: at most one session has is_main set.
C9_AtMostOneMain ==
    Cardinality({i \in 1..Len(disk.sessions) : disk.sessions[i].is_main}) <= 1

\* A dashboard start-up that found the main session already there: a fresh
\* main session is Active, this one was Paused by doctor in between.
C9_Witness ==
    /\ last.op = "tui_start"
    /\ \E s \in SessionSet(disk) : s.is_main /\ s.status = "Paused"

\* C12: a doctor run that succeeds gives every non-archived session the status
\* of the correction table for its W (working copy exists) and T (window
\* exists): neither -> Archived; T only -> Failed; W only -> Paused if it was
\* Active, else unchanged; both -> unchanged. Archived sessions are skipped.
C12_DoctorAppliesTable ==
    [][ (last'.op = "doctor" /\ last'.result = "Ok")
        => /\ Len(disk'.sessions) = Len(disk.sessions)
           /\ \A i \in 1..Len(disk.sessions) :
                LET s == disk.sessions[i]
                    W == s.worktree_path = RootPath \/ s.worktree_path \in wts
                    T == s.name \in windows
                    t == disk'.sessions[i].status
                IN IF s.status = "Archived" THEN t = "Archived"
                   ELSE /\ (~W /\ ~T) => t = "Archived"
                        /\ (~W /\ T) => t = "Failed"
                        /\ (W /\ ~T) => t = (IF s.status = "Active" THEN "Paused" ELSE s.status)
                        /\ (W /\ T) => t = s.status ]_vars

\* After a doctor run: a session whose working copy is gone while its window
\* is still there is Failed, and the main session, whose window is gone, is Paused.
C12_Witness ==
    /\ last.op = "doctor" /\ last.result = "Ok"
    /\ \E s \in SessionSet(disk) :
          s.status = "Failed" /\ s.worktree_path \notin wts /\ s.name \in windows
    /\ \E s \in SessionSet(disk) :
          s.is_main /\ s.status = "Paused" /\ s.name \notin windows

\* ---------------------------------------------------------------------------
\* Agent status (domain/agent.rs, commands/spawn.rs, tui/app.rs, tui/mod.rs)
\* ---------------------------------------------------------------------------
AgentIds == 1..MaxAgents

\* The status of agent id in a state document, "none" if it holds no such agent.
StatusOf(st, id) ==
    LET i == FindAgentById(st, id) IN IF i = 0 THEN "none" ELSE st.agents[i].status

\* C13: an agent is created Queued; once an agent is seen with another status,
\* neither the persisted state nor the state the dashboard holds ever shows it
\* Queued again, and a step that makes it Ingested finds it Completed.
C13_QueuedOnlyAtCreation ==
    [][ \A id \in AgentIds :
          /\ AgentNew(id, 1).status = "Queued"
          /\ StatusOf(disk, id) \notin {"none", "Queued"} => StatusOf(disk', id) # "Queued"
          /\ StatusOf(app, id) \notin {"none", "Queued"} => StatusOf(app', id) # "Queued"
          /\ (StatusOf(disk', id) = "Ingested" /\ StatusOf(disk, id) # "Ingested")
                => StatusOf(disk, id) = "Completed"
          /\ (StatusOf(app', id) = "Ingested" /\ StatusOf(app, id) # "Ingested")
                => StatusOf(app, id) = "Completed" ]_vars

\* An agent that spawn left Running has been marked Failed by the
\* reconciliation and saved.
C13_Witness ==
    /\ last.op = "tui_tick"
    /\ \E id \in AgentIds : StatusOf(disk, id) = "Failed" /\ StatusOf(app, id) = "Failed"

\* C14: the status of an agent changes only along Queued->Running,
\* Running->Completed, Running->Failed and Completed->Ingested, in the persisted
\* state and in the state the dashboard holds.
StatusEdges ==
    {<<"Queued", "Running">>, <<"Running", "Completed">>, <<"Running", "Failed">>,
     <<"Completed", "Ingested">>}

EdgeOk(from, to) == from = "none" \/ to = "none" \/ from = to \/ <<from, to>> \in StatusEdges

C14_OnlyLifecycleEdges ==
    [][ \A id \in AgentIds :
          /\ EdgeOk(StatusOf(disk, id), StatusOf(disk', id))
          /\ EdgeOk(StatusOf(app, id), StatusOf(app', id)) ]_vars

\* ---------------------------------------------------------------------------
\* Calls to tmux (infra/tmux.rs)
\* ---------------------------------------------------------------------------
\* C17: a call through run_tmux or run_tmux_output never invokes the
\* subprocess more than 3 times, and a call that has been entered returns,
\* whatever the subprocess answers.
C17_AtMostThreeInvocations ==
    /\ [](call.n <= 3)
    /\ [](call.pc = "loop" => <>(call.pc = "done"))

\* A call that returned after three invocations.
C17_Witness == call.pc = "done" /\ call.n = 3

IsTransient(a) == IsTransientIoError(a) \/ IsTransientTmuxError(a)

LastAnswer(c) == c.outs[Len(c.outs)]

\* C18: an answer is followed by another attempt only if it is a transient
\* failure; a call that ends on a non-transient failure returns an error; a
\* call that ends on a success at the second or third attempt returns Ok.
C18_RetryOnlyTransient ==
    /\ \A i \in 1..Len(call.outs) :
          (i < Len(call.outs) \/ call.pc = "loop") => IsTransient(call.outs[i])
    /\ (call.pc = "done" /\ LastAnswer(call) # "success" /\ ~IsTransient(LastAnswer(call)))
          => call.ret \in {"Tmux", "Io"}
    /\ (call.pc = "done" /\ Len(call.outs) >= 2 /\ LastAnswer(call) = "success")
          => call.ret = "Ok"

\* C19: window_exists and pane_exists return false when the answer that ends
\* the call is "no server running", "session not found" or another failure of
\* the probe (the window or pane is absent).
C19_ProbeFalseWhenAbsent ==
    (/\ call.pc = "done"
     /\ call.who \in {"window_exists", "pane_exists"}
     /\ LastAnswer(call) \in {"no_server", "session_not_found", "other_failure"})
        => ~ProbeResult(call)

\* C20: an ensure_session call that follows one that returned Ok issues no
\* new-session, leaves exactly one session of the name, and returns Ok
\* whenever its has-session probe could be run.
C20_EnsureSessionIdempotent ==
    (ens.k >= 2 /\ ens.pc = "returned" /\ ens.prev = "Ok")
        => /\ tsess = 1
           /\ ens.created = 0
           /\ ens.probe = "ran" => ens.ret = "Ok"

\* The first call created the session, the second found it and returned Ok.
C20_Witness ==
    /\ ens.k = 2 /\ ens.pc = "returned" /\ ens.prev = "Ok"
    /\ ens.probe = "ran" /\ ens.ret = "Ok" /\ tsess = 1

C16_ExitKeepsBindingsOfOthers ==
    [][ \A p \in Insts :
          (/\ inst[p].pc = "cleanup_source" /\ inst[p].has
           /\ bindings = NavItems /\ bindings' # NavItems)
             => ~\E q \in Insts : q # p /\ inst[q].pc = "run" /\ inst[q].has ]_vars

\* ---------------------------------------------------------------------------
\* The watcher channel (infra/watcher.rs, tui/mod.rs)
\* ---------------------------------------------------------------------------
\* The capacities that StormSize events arriving between two drains overrun.
Capacities == 1..(StormSize - 1)

\* C21: the watcher channel has a capacity: the number of queued events never
\* exceeds it, so of the events of a storm that overruns it some are dropped.
C21_ChannelBounded == \E c \in Capacities : Len(events) <= c

\* ---------------------------------------------------------------------------
\* Workspace kind (commands/init.rs, commands/refresh_repos.rs)
\* ---------------------------------------------------------------------------
\* C22: the persisted workspace is MultiRepo exactly when its repos list is
\* not empty.
C22_MultiRepoIffRepos == (kind = "MultiRepo") <=> (repos # {})

\* C23: a cleanup with dry_run = true leaves the persisted state and every
\* working copy unchanged; with dry_run = false, unless the save fails, the
\* sessions left are exactly those that were not Archived (nor Completed when
\* all = true), the agents left are exactly those whose parent was not
\* removed, and each of them is unchanged and in its place.
C23_CleanupFrame ==
    [][ last'.op = "cleanup" =>
          LET gone    == {s \in SessionSet(disk) :
                             \/ s.status = "Archived"
                             \/ last'.all /\ s.status = "Completed"}
              goneIds == {s.id : s \in gone}
          IN IF last'.dry_run
             THEN UNCHANGED <<disk, wts>>
             ELSE last'.result # "IoErr" =>
                    /\ disk'.sessions = SelectSeq(disk.sessions, LAMBDA s : s \notin gone)
                    /\ disk'.agents = SelectSeq(disk.agents, LAMBDA a : a.parent_session \notin goneIds) ]_vars

\* A cleanup --all that removed a session together with an agent of it and
\* kept another session and another agent.
C23_Witness ==
    /\ last.op = "cleanup" /\ last.all /\ ~last.dry_run /\ last.result = "Ok"
    /\ last.agents > 0
    /\ disk.agents # <<>>
    /\ disk.sessions # <<>>
    /\ \A s \in SessionSet(disk) : s.status \notin {"Archived", "Completed"}

\* The ids in a session's agents list.
ListedAgents(s) == {s.agents[i] : i \in 1..Len(s.agents)}

\* C24: when a spawn, headless or interactive, returns success, the persisted
\* state holds an agent that was not there before, and the agents list of the
\* session that is its parent, as persisted by the same save, holds its id.
C24_SpawnListsAgent ==
    [][ (last'.op = "spawn" /\ last'.result = "Ok") =>
          \E a \in AgentSet(disk') :
             /\ \A b \in AgentSet(disk) : b.id # a.id
             /\ \E s \in SessionSet(disk') :
                   s.id = a.parent_session /\ a.id \in ListedAgents(s)
             /\ \A s \in SessionSet(disk) : a.id \notin ListedAgents(s) ]_vars

\* A successful spawn of an interactive agent whose pane exists.
C24_Witness ==
    /\ last.op = "spawn" /\ last.result = "Ok"
    /\ \E a \in AgentSet(disk) :
          /\ a.mode = "Interactive" /\ a.tmux_pane \in panes
          /\ \E s \in SessionSet(disk) : s.id = a.parent_session /\ a.id \in ListedAgents(s)

\* The defaulted fields a JSON document lacks.
Lacks(json) ==
    ({"kind", "repos"} \ DOMAIN json.workspace) \cup ({"is_main", "repo_worktrees"} \ DOMAIN json.session)

\* C25: a document lacking kind, repos, repo_worktrees or is_main loads with
\* SingleRepo, no repositories, no per-repo working copies and is_main false
\* in their place; and the load of a document written by save returns the
\* state that was saved.
C25_LegacyDefaultsRoundTrip ==
    /\ (mem.res = "Ok" /\ mem.writer = "legacy") =>
          /\ "kind" \in Lacks(mem.json) => mem.state.workspace.kind = "SingleRepo"
          /\ "repos" \in Lacks(mem.json) => mem.state.workspace.repos = {}
          /\ "repo_worktrees" \in Lacks(mem.json) => mem.state.session.repo_worktrees = {}
          /\ "is_main" \in Lacks(mem.json) => mem.state.session.is_main = FALSE
    /\ (mem.res # "none" /\ Lacks(legacy) = {"kind", "repos", "repo_worktrees", "is_main"}
            /\ {"name"} \subseteq DOMAIN legacy.workspace /\ {"id"} \subseteq DOMAIN legacy.session)
          => mem.res = "Ok"
    /\ mem.writer = "save" => (mem.res = "Ok" /\ mem.state = mem.of)

\* The document lacked all four fields, was loaded, saved and loaded again.
C25_Witness ==
    /\ Lacks(legacy) = {"kind", "repos", "repo_worktrees", "is_main"}
    /\ mem.writer = "save" /\ mem.res = "Ok"
    /\ Lacks(mem.json) = {}
    /\ mem.state.workspace.kind = "SingleRepo"

\* ---------------------------------------------------------------------------
\* Reconciliation of agents with their panes (tui/app.rs)
\* ---------------------------------------------------------------------------
\* Agent a has a pane handle, is not in a terminal state, and its pane is gone.
PaneGone(a, pns) ==
    /\ a.tmux_pane # 0
    /\ a.status \notin {"Completed", "Failed", "Ingested"}
    /\ a.tmux_pane \notin pns

\* The positions at which two agent lists of the same length differ.
Changed(before, after) == {i \in 1..Len(before) : after[i] # before[i]}

\* C26: a full sweep leaves sessions alone, turns every agent that has a
\* handle, is not terminal and whose pane is gone into Failed without handle,
\* leaves every other agent as it was, and saves once exactly when it
\* corrected an agent (the saved document being the corrected state).
C26_FullSweepCorrects ==
    [][ last'.op = "tui_sweep" =>
          /\ app'.sessions = app.sessions
          /\ Len(app'.agents) = Len(app.agents)
          /\ \A i \in 1..Len(app.agents) :
                app'.agents[i] = IF PaneGone(app.agents[i], panes)
                                 THEN [app.agents[i] EXCEPT !.status = "Failed", !.tmux_pane = 0]
                                 ELSE app.agents[i]
          /\ last'.saves = IF \E i \in 1..Len(app.agents) : PaneGone(app.agents[i], panes)
                           THEN 1 ELSE 0
          /\ (last'.saves = 1 /\ last'.result = "Ok") => disk' = app'
          /\ last'.saves = 0 => disk' = disk ]_vars

\* A sweep that corrected two agents at once and saved.
C26_Witness ==
    /\ last.op = "tui_sweep" /\ last.agents >= 2 /\ last.saves = 1
    /\ disk = app

\* C27: a call of the incremental reconciliation makes at most one pane
\* check, exactly one when the list it works on holds an eligible agent,
\* changes at most one agent, and leaves the sessions and the other agents
\* as they were.
C27_OneCheckPerCall ==
    [][ last'.op = "tui_tick" =>
          /\ last'.checks <= 1
          /\ (\E i \in 1..Len(last'.held.agents) :
                 LET a == last'.held.agents[i]
                 IN a.tmux_pane # 0 /\ a.status \notin {"Completed", "Failed", "Ingested"})
                => last'.checks = 1
          /\ app'.sessions = last'.held.sessions
          /\ Len(app'.agents) = Len(last'.held.agents)
          /\ Cardinality(Changed(last'.held.agents, app'.agents)) <= 1 ]_vars

\* A call that marked one agent while another agent whose pane is gone too
\* was left for a later call.
C27_Witness ==
    /\ last.op = "tui_tick" /\ last.checks = 1
    /\ Cardinality(Changed(last.held.agents, app.agents)) = 1
    /\ \E j \in 1..Len(app.agents) : PaneGone(app.agents[j], panes)

\* C28: with ticks recurring and the agent list as it is, an eligible agent
\* is passed over by fewer calls in a row than the list has agents, and an
\* agent whose pane is gone is eventually Failed with its handle cleared.
C28_NoStarvation ==
    /\ [](\A id \in TrackedIds : waits[id] = 0 \/ waits[id] < Len(app.agents))
    /\ \A id \in 1..NumStored :
          (FindAgentById(app, id) # 0 /\ PaneGone(app.agents[FindAgentById(app, id)], panes))
             ~> (/\ FindAgentById(app, id) # 0
                 /\ app.agents[FindAgentById(app, id)].status = "Failed"
                 /\ app.agents[FindAgentById(app, id)].tmux_pane = 0)

\* An agent whose pane is gone has been passed over by as many calls as the
\* bound allows: the next call checks it.
C28_Witness ==
    \E id \in 1..NumStored :
       /\ waits[id] > 0 /\ waits[id] = Len(app.agents) - 1
       /\ FindAgentById(app, id) # 0
       /\ PaneGone(app.agents[FindAgentById(app, id)], panes)

\* C29: every index at which a call reads the agent list is below the length
\* of the list the call works on, and the call leaves the cursor between 0
\* and that length, whatever the refreshes did to the list.
C29_CursorInRange ==
    [][ last'.op = "tui_tick" =>
          /\ \A i \in last'.read : 0 <= i /\ i < Len(last'.held.agents)
          /\ 0 <= reconcile_next_agent'
          /\ reconcile_next_agent' <= Len(app'.agents) ]_vars

\* A call that started with the cursor beyond the end of a list a refresh had
\* shortened, and read the list.
C29_Witness ==
    /\ last.op = "tui_tick"
    /\ last.from > Len(last.held.agents)
    /\ last.read # {}

\* The ids queued in the watcher channel.
Queued == {events[i] : i \in 1..Len(events)}

\* C30: a headless agent that is Running, whose output file is written and
\* for which no agent-completed event is queued, is eventually Completed in
\* the state the dashboard holds.
C30_BackstopCompletes ==
    \A id \in 1..NumStored :
       (id \in outputs /\ id \notin Queued /\ StatusOf(app, id) = "Running")
          ~> StatusOf(app, id) = "Completed"

C31_LostBindingsRestored ==
    \A p \in Insts :
        (inst[p].pc = "run" /\ bindings # NavItems)
            ~> (bindings = NavItems \/ inst[p].pc = "off" \/ inst[p].pc \in {"cleanup_rmlock", "cleanup_source"})

\* C32: a lock file that names a dead process while another instance runs is
\* taken over by that instance's periodic check.
C32_StaleLockReclaimed ==
    \A q \in Insts :
        (inst[q].pc = "run" /\ IsNavLockStale(navlock))
            ~> (navlock = q \/ inst[q].pc # "run" \/ ~IsNavLockStale(navlock))

\* C33: every change of a persisted session status is one of Creating -> Active,
\* Active -> Paused, Paused -> Active, Active -> Completed, a non-terminal
\* status -> Failed, any status -> Archived; in particular nothing moves Failed
\* or Completed back to Active.
SessionEdges ==
    {<<"Creating", "Active">>, <<"Active", "Paused">>, <<"Paused", "Active">>,
     <<"Active", "Completed">>}
    \cup ({"Creating", "Active", "Paused"} \X {"Failed"})
    \cup (SessionStatuses \X {"Archived"})

C33_OnlySessionLifecycleEdges ==
    [][ \A s \in SessionSet(disk), t \in SessionSet(disk') :
          (s.id = t.id /\ s.status # t.status) => <<s.status, t.status>> \in SessionEdges ]_vars

C35_NewAllOrNothing ==
    [][ (last'.op = "new" /\ last'.result # "Ok")
        => (disk' = disk /\ wts' = wts /\ windows' = windows) ]_vars

\* C36: a mutating command (send_keys, kill_window) whose attempts all fail
\* with a transient server error ("no server running", "server exited", "lost
\* server") is tried MaxAttempts times and then returns an error; it returns
\* success only when the invocation that ended it succeeded.
C36_TransientRetriedThenSurfaced ==
    (call.pc = "done" /\ call.who \in {"send_keys", "kill_window"})
        => /\ (\A i \in 1..Len(call.outs) : IsTransientTmuxError(call.outs[i]))
                => (call.ret = "Tmux" /\ Len(call.outs) = MaxAttempts)
           /\ call.ret = "Ok" => LastAnswer(call) = "success"

\* C38: a save by the dashboard does not undo what another process has
\* committed: the sessions and agents stored after it are those stored before
\* it, so a session removed by kill does not come back.
StoredIds(st) ==
    [sessions |-> {s.id : s \in SessionSet(st)}, agents |-> {a.id : a \in AgentSet(st)}]

C38_NoLostUpdate ==
    [][ last'.op \in {"tui_tick", "tui_agent_completed"} => StoredIds(disk') = StoredIds(disk) ]_vars

\* C39: every id in the agents list of a stored session is the id of a
\* stored agent.
C39_ListedAgentsExist ==
    \A s \in SessionSet(disk) : \A id \in ListedAgents(s) : \E a \in AgentSet(disk) : a.id = id

\* C40: the parent_session of every stored agent is the id of a stored session.
C40_ParentSessionExists ==
    \A a \in AgentSet(disk) : \E s \in SessionSet(disk) : s.id = a.parent_session

====
